---- MODULE Spec2Model ----
(***************************************************************************)
(* Verification model of hermes.                                           *)
(*  - the self-test orchestrator (src/src/self_test.rs): the run()         *)
(*    workflow, the CTRL-C handler task, the job-status monitor, the two   *)
(*    cleanup procedures, and the log/event multiplexer;                   *)
(*  - the cluster scan: platform detectors (src/src/platforms.rs), the     *)
(*    topology rule (src/src/topology_rule.rs) and ClusterAnalyzer         *)
(*    (src/hermes/src/analyzer.rs);                                        *)
(*  - node selection (src/hermes/src/node_selector.rs).                    *)
(***************************************************************************)
EXTENDS Integers, Sequences, FiniteSets, TLC

VARIABLES
    config,         \* SelfTestConfig fields read by the orchestrator
    mpc,            \* position of the main task inside run()/execute_test()
    docIdx,         \* deploy_workload: index of the next rendered document
    status,         \* TestExecution.status of the orchestrator's own record
    success,        \* TestExecution.results.success
    shared,         \* self.test_execution: Arc<Mutex<Option<TestExecution>>>
    nodePair,       \* node_pair.node1.rdma_resource (Option<String>)
    detected,       \* self.detected_sriov_network
    sriovResp,      \* response of the SriovNetwork listing awaited by run()
    result,         \* value returned by run()
    lastPoll,       \* Job listing received by the latest check_job_statuses
    elapsed,        \* start.elapsed() in monitor_test_execution, in ticks
    mainDel,        \* cleanup_test_resources: number of delete calls issued
    spc,            \* position of the spawned CTRL-C task
    sigDel,         \* cleanup_resources_static: number of delete calls issued
    sigStatus,      \* status of the test at the moment SIGINT was delivered
    cluster,        \* resources of the test that exist on the cluster
    createCalls,    \* number of create calls sent to the cluster API
    exited,         \* the process has terminated
    exitCode,       \* its exit status
    panicked,       \* a task panicked
    \* ---- log/event multiplexer (spawn_log_streamers) ----
    sup,            \* position of the supervisor task
    podList,        \* pods returned by the label-selector listing
    fpc,            \* position of each pod's follower task
    readLog,        \* per pod: lines the follower has read, in order
    evCount,        \* number of items the event watch stream has delivered
    wpc,            \* position of the event watcher task
    chan,           \* the unbounded mpsc channel (FIFO of <<pod, line>>)
    senders,        \* number of live Sender handles of the channel
    ppc,            \* position of the printer task
    printed,        \* lines the printer has written, in order
    podColors,      \* printer's pod -> colour index map
    \* ---- cluster scan (main.rs scan loop, ClusterAnalyzer) ----
    scanPc,         \* position of the scan
    nodeList,       \* node_list.items: the Node objects returned by the API
    topologyRule,   \* options.topology_rule (Option)
    clusterPlatform,    \* platform_type detected from the first node
    clusterStrategy,    \* cluster_topology_strategy (Option<TopologyDetection>)
    reportNodes,    \* cluster_report.nodes: the NodeInfo values produced
    analyzeArgs,    \* detail_level and check_image given to analyze_node_with_image
    \* ---- node selection (node_selector.rs) ----
    selPc,          \* position of select_nodes_from_report
    selParams,      \* NodeSelectionParams
    selReport,      \* report.nodes handed to the selector
    selResult       \* value returned by resolve() / select_nodes_from_report()

orchVars == <<config, mpc, docIdx, status, success, shared, nodePair, detected,
              sriovResp, result, lastPoll, elapsed, mainDel, spc, sigDel, sigStatus,
              cluster, createCalls, exited, exitCode, panicked>>

muxVars == <<sup, podList, fpc, readLog, evCount, wpc, chan, senders,
             ppc, printed, podColors>>

scanVars == <<scanPc, nodeList, topologyRule, clusterPlatform, clusterStrategy,
              reportNodes, analyzeArgs>>

selVars == <<selPc, selParams, selReport, selResult>>

toolVars == <<scanVars, selVars>>

vars == <<orchVars, muxVars, toolVars>>

----------------------------------------------------------------------------
(* Bounds of the model *)

\* workload.expected_duration() measured in clock ticks
ExpectedDuration == 2
\* largest number of SR-IOV network objects returned by one listing
MaxNets == 2
\* largest value of a Job's status.succeeded / status.failed counter
MaxCount == 1
\* largest number of items (log lines and watch events) the streams of the
\* multiplexer deliver in total
MaxItems == 3

\* the monitor's clock is not advanced further than one tick past the bound
MaxElapsed == ExpectedDuration + 1

----------------------------------------------------------------------------
(* Strings are modelled as tuples of one-character strings so that split,  *)
(* contains and to_lowercase are computed as the code computes them.       *)

\* Option<T>: None is the empty tuple, Some(x) the one-element tuple
NoneOpt == <<>>
Some(x) == <<x>>
IsSome(o) == o # <<>>

UpperCase == <<"A","B","C","D","E","F","G","H","I","J","K","L","M",
               "N","O","P","Q","R","S","T","U","V","W","X","Y","Z">>
LowerCase == <<"a","b","c","d","e","f","g","h","i","j","k","l","m",
               "n","o","p","q","r","s","t","u","v","w","x","y","z">>

\* char::to_lowercase on one ASCII character
LowerChar(c) ==
    IF \E i \in 1..26 : UpperCase[i] = c
    THEN LowerCase[CHOOSE i \in 1..26 : UpperCase[i] = c]
    ELSE c

\* str::to_lowercase
ToLowercase(s) == [i \in 1..Len(s) |-> LowerChar(s[i])]

\* str::contains(sub)
Contains(s, sub) ==
    \E i \in 0..(Len(s) - Len(sub)) :
        \A k \in 1..Len(sub) : s[i + k] = sub[k]

\* s.split(':').next(): the text before the first ':' (all of s if none)
SplitFirstColon(s) ==
    IF \E i \in 1..Len(s) : s[i] = ":"
    THEN SubSeq(s, 1, (CHOOSE i \in 1..Len(s) :
                          /\ s[i] = ":"
                          /\ \A k \in 1..(i-1) : s[k] # ":") - 1)
    ELSE s

S_roce == <<"r","o","c","e">>
S_rdma == <<"r","d","m","a">>
S_mlnx == <<"m","l","n","x">>

S_RoceGdr1 == <<"r","d","m","a","/","r","o","c","e","_","g","d","r",":"," ","1">>
S_Ib1 == <<"r","d","m","a","/","i","b",":"," ","1">>
S_IbRoceQty == <<"r","d","m","a","/","i","b",":"," ","r","o","c","e">>

S_roce_p2 == <<"r","o","c","e","-","p","2">>
S_net_a == <<"n","e","t","-","a">>
S_net_b == <<"n","e","t","-","b">>
S_RDMA_x == <<"R","D","M","A","-","x">>
S_MLNX_vf == <<"M","L","N","X","_","v","f">>
S_intel == <<"i","n","t","e","l">>

----------------------------------------------------------------------------
(* Configuration and environment *)

\* SelfTestConfig::default().namespace
TargetNamespace == "default"

\* the configurations a run can be started with
Configs ==
    [ dry_run : BOOLEAN,            \* execution_mode.is_dry_run()
      no_cleanup : BOOLEAN,         \* !cleanup_mode.should_cleanup()
      cleanup_on_signal : BOOLEAN,  \* signal_handling.should_cleanup_on_signal()
      sriov_network : {NoneOpt, Some(S_roce_p2)} ]  \* --sriov-network

\* values of node1.rdma_resource a selected pair can carry
PairResources == {NoneOpt, Some(S_RoceGdr1), Some(S_Ib1), Some(S_IbRoceQty)}

\* SR-IOV network objects the operator namespace can hold
NetChoices ==
    { [name |-> Some(S_roce_p2), network_namespace |-> Some("default"), resource_name |-> S_intel],
      [name |-> Some(S_net_a),   network_namespace |-> Some("default"), resource_name |-> S_MLNX_vf],
      [name |-> Some(S_net_b),   network_namespace |-> Some("default"), resource_name |-> S_intel],
      [name |-> NoneOpt,         network_namespace |-> Some("default"), resource_name |-> S_intel],
      [name |-> Some(S_RDMA_x),  network_namespace |-> Some("other"),   resource_name |-> S_MLNX_vf],
      [name |-> Some(S_net_a),   network_namespace |-> NoneOpt,         resource_name |-> S_MLNX_vf] }

NetLists == UNION { [1..n -> NetChoices] : n \in 0..MaxNets }

\* what sriov_api.list() can answer: the items, or an error
NoResponse == [ok |-> FALSE, items |-> <<>>, pending |-> TRUE]
ListResponses ==
    { [ok |-> TRUE, items |-> nets, pending |-> FALSE] : nets \in NetLists }
    \cup { [ok |-> FALSE, items |-> <<>>, pending |-> FALSE] }

\* length of uuid::Uuid::new_v4().to_string()
TestIdLen == 36
\* length of the test_id prefix used in resource names
ShortIdLen == 8

\* the documents the workload template renders, in order
Docs == <<"configmap", "service", "job-target", "job-initiator">>

\* the resources both cleanup procedures delete, in order
CleanupOrder == <<"job-target", "job-initiator", "service", "configmap">>

JobNames == {"job-target", "job-initiator"}

\* TestStatus; "NoExecution" stands for "no TestExecution record exists yet"
Statuses == {"Pending", "Deploying", "Running", "Completed", "Failed", "TimedOut"}
NoExecution == "NoExecution"

NoResult == [kind |-> "none", msg |-> <<>>]
OkResult == [kind |-> "Ok", msg |-> <<>>]
ErrResult(m) == [kind |-> "Err", msg |-> m]

----------------------------------------------------------------------------
(* Pure helpers of the orchestrator *)

\* first index of seq whose element satisfies Test, or 0 (Iterator::find)
FindFirst(seq, Test(_)) ==
    IF \E i \in 1..Len(seq) : Test(seq[i])
    THEN CHOOSE i \in 1..Len(seq) :
             /\ Test(seq[i])
             /\ \A k \in 1..(i-1) : ~Test(seq[k])
    ELSE 0

\* variant of the filter: a network without networkNamespace is taken to
\* target the namespace
TargetsNamespace_DefaultMatches(net, ns) ==
    IF IsSome(net.network_namespace)
    THEN net.network_namespace[1] = ns
    ELSE TRUE

\* the networkNamespace filter of detect_sriov_networks
TargetsNamespace(net, ns) ==
    IF IsSome(net.network_namespace)
    THEN net.network_namespace[1] = ns
    ELSE FALSE

\* detect_sriov_networks: a failed listing yields the empty list
DetectSriovNetworks(resp, ns) ==
    IF resp.ok
    THEN SelectSeq(resp.items, LAMBDA net : TargetsNamespace(net, ns))
    ELSE <<>>

NameIsRdma(net) ==
    IF IsSome(net.name)
    THEN LET lower == ToLowercase(net.name[1])
         IN  Contains(lower, S_rdma) \/ Contains(lower, S_roce)
    ELSE FALSE

ResourceIsRdma(net) ==
    LET lower == ToLowercase(net.resource_name)
    IN  Contains(lower, S_rdma) \/ Contains(lower, S_roce) \/ Contains(lower, S_mlnx)

\* select_sriov_network
SelectSriovNetwork(networks) ==
    IF Len(networks) = 0 THEN NoneOpt
    ELSE LET byName == FindFirst(networks, NameIsRdma)
             byRes  == FindFirst(networks, ResourceIsRdma)
         IN  IF byName # 0 THEN networks[byName].name
             ELSE IF byRes # 0 THEN networks[byRes].name
             ELSE networks[1].name

\* run(): the resource type of the pair and the RoCE test
RdmaTypeOf(pair) == IF IsSome(pair) THEN SplitFirstColon(pair[1]) ELSE <<>>
IsRoce(pair) == Contains(RdmaTypeOf(pair), S_roce)

NoSriovMsg(ns) ==
    << "No SR-IOV networks found for namespace '", ns,
       "'. RoCE RDMA requires SR-IOV network configuration. Please either: 1. Configure an SR-IOV network in the openshift-sriov-network-operator namespace with networkNamespace: '",
       ns, "', or 2. Specify an existing network with ", "--sriov-network",
       " <network-name>" >>

NoSuitableSriovMsg(ns, n) ==
    << "No suitable SR-IOV network found for namespace '", ns, "'. Found ",
       ToString(n), " network(s) but none matched RDMA criteria. Please specify ",
       "--sriov-network",
       " manually or configure an SR-IOV network for this namespace." >>

\* variant of the cleanup gate: dry-run mode is not looked at
ShouldCleanup_IgnoresDryRun(cfg) == ~cfg.no_cleanup

\* cleanup gate of run()
ShouldCleanup(cfg) == ~cfg.no_cleanup /\ ~cfg.dry_run

\* setup_signal_handler: whether the CTRL-C task is spawned
InstallsHandler(cfg) == ~(~cfg.cleanup_on_signal \/ cfg.dry_run)

\* &test_id[..8] panics when the string is shorter than the prefix
SliceOk == ShortIdLen <= TestIdLen

\* check_job_statuses: one JobStatus per listed Job
CountOf(opt) == IF IsSome(opt) THEN opt[1] ELSE 0
JobStatusOf(job) ==
    [completed |-> CountOf(job.succeeded) > 0, failed |-> CountOf(job.failed) > 0]
CheckJobStatuses(listing) == [j \in DOMAIN listing |-> JobStatusOf(listing[j])]

\* variants of the two tests: any() for all(), all() for any()
AllCompleted_Any(statuses) == \E j \in DOMAIN statuses : statuses[j].completed
AnyFailed_All(statuses) ==
    /\ DOMAIN statuses # {}
    /\ \A j \in DOMAIN statuses : statuses[j].failed

\* the two tests of the monitor loop
AllCompleted(statuses) == \A j \in DOMAIN statuses : statuses[j].completed
AnyFailed(statuses) == \E j \in DOMAIN statuses : statuses[j].failed

\* variant of the loop condition: <= for <
LoopGuard_OffByOne(e) == e <= ExpectedDuration

\* the loop condition start.elapsed() < timeout
LoopGuard(e) == e < ExpectedDuration

\* Option<i32> values of status.succeeded / status.failed
CountVals == {NoneOpt} \cup { Some(n) : n \in 0..MaxCount }
\* what a label-selector listing of the Jobs in `existing` can return
Listings(existing) == [existing -> [succeeded : CountVals, failed : CountVals]]

\* exit status of the process for a value returned by main()
ExitCodeOf(r) == IF r.kind = "Ok" THEN 0 ELSE 1

----------------------------------------------------------------------------
(* Initial state: a freshly constructed SelfTestOrchestrator *)

\* pods a label-selector listing can return, and the listings themselves
Pods == {"pod-a", "pod-b"}
PodLists == {<<>>, <<"pod-a">>, <<"pod-a", "pod-b">>}
\* texts a log line can carry
LineTexts == {"x", "y"}

\* the scan and the selection analyze with basic labels and no image
\* (ScanOptions.detail_level, analyze_node passes check_image = None)
ScanArgs == [detail_level |-> "Basic", check_image |-> <<>>]

\* no scan and no node selection is running
ToolsIdle ==
    /\ scanPc = "off"
    /\ nodeList = <<>>
    /\ topologyRule = NoneOpt
    /\ clusterPlatform = "GenericKubernetes"
    /\ clusterStrategy = NoneOpt
    /\ reportNodes = <<>>
    /\ analyzeArgs = ScanArgs
    /\ selPc = "off"
    /\ selParams = NoneOpt
    /\ selReport = <<>>
    /\ selResult = NoResult

\* no multiplexer has been spawned
MuxIdle ==
    /\ sup = "off"
    /\ podList = <<>>
    /\ fpc = [p \in Pods |-> "off"]
    /\ readLog = [p \in Pods |-> <<>>]
    /\ evCount = 0
    /\ wpc = "off"
    /\ chan = <<>>
    /\ senders = 0
    /\ ppc = "off"
    /\ printed = <<>>
    /\ podColors = <<>>

OrchInit ==
    /\ config \in Configs
    /\ mpc = "start"
    /\ docIdx = 1
    /\ status = NoExecution
    /\ success = FALSE
    /\ shared = NoneOpt
    /\ nodePair = NoneOpt
    /\ detected = NoneOpt
    /\ sriovResp = NoResponse
    /\ result = NoResult
    /\ lastPoll = <<>>
    /\ elapsed = 0
    /\ mainDel = 0
    /\ spc = "none"
    /\ sigDel = 0
    /\ sigStatus = "NoSignal"
    /\ cluster = {}
    /\ createCalls = 0
    /\ exited = FALSE
    /\ exitCode = 0
    /\ panicked = FALSE

Init == OrchInit /\ MuxIdle /\ ToolsIdle

----------------------------------------------------------------------------
(* Steps of the main task: run() -> execute_test() -> monitor -> cleanup *)

\* the main task moves on inside run()
Goto(p) ==
    /\ mpc' = p
    /\ UNCHANGED <<result, exited, exitCode, panicked>>

\* run() returns r, main() returns it and the process ends
Return(r) ==
    /\ mpc' = "returned"
    /\ result' = r
    /\ exited' = TRUE
    /\ exitCode' = ExitCodeOf(r)
    /\ UNCHANGED panicked

\* a panic on the main task aborts the process
Panic ==
    /\ mpc' = "panicked"
    /\ panicked' = TRUE
    /\ exited' = TRUE
    /\ exitCode' = 101
    /\ UNCHANGED result

\* variant of the cleanup gate: resources of an unsuccessful test are kept
GateThen_OnlyOnSuccess ==
    IF ShouldCleanup(config) /\ success
    THEN Goto("cleanup")
    ELSE Return(OkResult)

\* the cleanup gate at the end of run()
GateThen ==
    IF ShouldCleanup(config)
    THEN Goto("cleanup")
    ELSE Return(OkResult)

\* run(): setup_signal_handler
Start ==
    /\ ~exited /\ mpc = "start"
    /\ spc' = IF InstallsHandler(config) THEN "wait" ELSE spc
    /\ Goto("load")
    /\ UNCHANGED <<config, sriovResp, docIdx, status, success, shared, nodePair, detected,
                   lastPoll, elapsed, mainDel, sigDel, sigStatus, cluster,
                   createCalls, muxVars, toolVars>>

\* run(): load the workload (stdin loading is todo!())
LoadWorkload ==
    /\ ~exited /\ mpc = "load"
    /\ \E src \in {"embedded", "unknown", "stdin"} :
          IF src = "stdin" THEN Panic
          ELSE IF src = "unknown"
               THEN Return(ErrResult(<<"workload '", "x", "' not found in registry">>))
               ELSE Goto("analyze")
    /\ UNCHANGED <<config, sriovResp, docIdx, status, success, shared, nodePair, detected,
                   lastPoll, elapsed, mainDel, spc, sigDel, sigStatus, cluster,
                   createCalls, muxVars, toolVars>>

\* run(): analyze_cluster
AnalyzeCluster ==
    /\ ~exited /\ mpc = "analyze"
    /\ \E ok \in BOOLEAN :
          IF ok THEN Goto("select")
          ELSE Return(ErrResult(<<"cluster analysis failed">>))
    /\ UNCHANGED <<config, sriovResp, docIdx, status, success, shared, nodePair, detected,
                   lastPoll, elapsed, mainDel, spc, sigDel, sigStatus, cluster,
                   createCalls, muxVars, toolVars>>

\* run(): select_optimal_node_pair
SelectPair ==
    /\ ~exited /\ mpc = "select"
    /\ \/ /\ Return(ErrResult(<<"Need at least 2 RDMA-capable nodes for testing">>))
          /\ UNCHANGED nodePair
       \/ /\ \E r \in PairResources : nodePair' = r
          /\ Goto("sriov")
    /\ UNCHANGED <<config, sriovResp, docIdx, status, success, shared, detected,
                   lastPoll, elapsed, mainDel, spc, sigDel, sigStatus, cluster,
                   createCalls, muxVars, toolVars>>

\* run(): SR-IOV discovery is needed only for RoCE without --sriov-network;
\* then the SriovNetwork objects of the operator namespace are listed
DiscoverSriov ==
    /\ ~exited /\ mpc = "sriov"
    /\ IF ~IsSome(config.sriov_network) /\ IsRoce(nodePair)
       THEN /\ \E resp \in ListResponses : sriovResp' = resp
            /\ Goto("sriov_select")
       ELSE /\ Goto("execute")
            /\ UNCHANGED sriovResp
    /\ UNCHANGED <<config, docIdx, status, success, shared, nodePair, detected,
                   lastPoll, elapsed, mainDel, spc, sigDel, sigStatus, cluster,
                   createCalls, muxVars, toolVars>>

\* run(): the listing returned; filter it to the target namespace, pick a
\* network, or fail before anything is deployed
SelectSriov ==
    /\ ~exited /\ mpc = "sriov_select"
    /\ LET sriov_networks == DetectSriovNetworks(sriovResp, TargetNamespace)
           selected == SelectSriovNetwork(sriov_networks)
       IN  IF Len(sriov_networks) # 0
           THEN IF IsSome(selected)
                THEN /\ detected' = selected
                     /\ Goto("execute")
                ELSE /\ Return(ErrResult(NoSuitableSriovMsg(
                              TargetNamespace, Len(sriov_networks))))
                     /\ UNCHANGED detected
           ELSE /\ Return(ErrResult(NoSriovMsg(TargetNamespace)))
                /\ UNCHANGED detected
    /\ sriovResp' = NoResponse
    /\ UNCHANGED <<config, docIdx, status, success, shared, nodePair,
                   lastPoll, elapsed, mainDel, spc, sigDel, sigStatus, cluster,
                   createCalls, muxVars, toolVars>>

\* execute_test(): the TestExecution record is created in state Deploying
CreateExecution ==
    /\ ~exited /\ mpc = "execute"
    /\ status' = "Deploying"
    /\ Goto(IF config.dry_run THEN "dry_render" ELSE "deploy_render")
    /\ UNCHANGED <<config, sriovResp, docIdx, success, shared, nodePair, detected,
                   lastPoll, elapsed, mainDel, spc, sigDel, sigStatus, cluster,
                   createCalls, muxVars, toolVars>>

\* execute_test(), dry run: render_manifests_to_stdout, then mark the record
DryRunRender ==
    /\ ~exited /\ mpc = "dry_render"
    /\ IF ~SliceOk
       THEN Panic /\ UNCHANGED <<status, success>>
       ELSE \E ok \in BOOLEAN :
              IF ok
              THEN /\ status' = "Completed"
                   /\ success' = TRUE
                   /\ GateThen
              ELSE /\ Return(ErrResult(<<"render failed">>))
                   /\ UNCHANGED <<status, success>>
    /\ UNCHANGED <<config, sriovResp, docIdx, shared, nodePair, detected,
                   lastPoll, elapsed, mainDel, spc, sigDel, sigStatus, cluster,
                   createCalls, muxVars, toolVars>>

\* deploy_workload(): render the template and parse the YAML stream
DeployRender ==
    /\ ~exited /\ mpc = "deploy_render"
    /\ IF ~SliceOk
       THEN Panic
       ELSE \E ok \in BOOLEAN :
              IF ok THEN Goto("deploy")
              ELSE Return(ErrResult(<<"render failed">>))
    /\ docIdx' = 1
    /\ UNCHANGED <<config, sriovResp, status, success, shared, nodePair, detected,
                   lastPoll, elapsed, mainDel, spc, sigDel, sigStatus, cluster,
                   createCalls, muxVars, toolVars>>

\* deploy_workload(): one create call of the loop over the documents
DeployCreate ==
    /\ ~exited /\ mpc = "deploy" /\ docIdx <= Len(Docs)
    /\ createCalls' = createCalls + 1
    /\ \E ok \in BOOLEAN :
          IF ok
          THEN /\ cluster' = cluster \cup {Docs[docIdx]}
               /\ docIdx' = docIdx + 1
               /\ Goto(IF docIdx = Len(Docs) THEN "store" ELSE "deploy")
          ELSE /\ Return(ErrResult(<<"create failed: ", Docs[docIdx]>>))
               /\ UNCHANGED <<cluster, docIdx>>
    /\ UNCHANGED <<config, sriovResp, status, success, shared, nodePair, detected,
                   lastPoll, elapsed, mainDel, spc, sigDel, sigStatus, muxVars, toolVars>>

\* execute_test(): publish the record for the signal handler, enter Running,
\* and start the monitor's clock
StoreAndRun ==
    /\ ~exited /\ mpc = "store"
    /\ spc # "cleanup"                 \* the mutex is free
    /\ shared' = Some([status |-> status])
    /\ status' = "Running"
    /\ elapsed' = 0
    /\ Goto("loop")
    /\ UNCHANGED <<config, sriovResp, docIdx, success, nodePair, detected, lastPoll,
                   mainDel, spc, sigDel, sigStatus, cluster, createCalls, muxVars, toolVars>>

\* monitor_test_execution(): the loop head. While the guard holds the Jobs
\* are listed (the call can fail); once it fails the loop is left and a
\* test that is still Running becomes TimedOut.
LoopHead ==
    /\ ~exited /\ mpc = "loop"
    /\ IF LoopGuard(elapsed)
       THEN /\ IF ~SliceOk
               THEN Panic /\ UNCHANGED lastPoll
               ELSE \E ok \in BOOLEAN, listing \in Listings(cluster \cap JobNames) :
                      IF ok
                      THEN /\ lastPoll' = listing
                           /\ Goto("evaluate")
                      ELSE /\ Return(ErrResult(<<"job list failed">>))
                           /\ UNCHANGED lastPoll
            /\ UNCHANGED status
       ELSE /\ status' = IF status = "Running" THEN "TimedOut" ELSE status
            /\ Goto("flush")
            /\ UNCHANGED lastPoll
    /\ UNCHANGED <<config, sriovResp, docIdx, success, shared, nodePair, detected,
                   elapsed, mainDel, spc, sigDel, sigStatus, cluster,
                   createCalls, muxVars, toolVars>>

\* variant of the loop body without the two break statements
Evaluate_NoBreak ==
    /\ ~exited /\ mpc = "evaluate"
    /\ IF AllCompleted(CheckJobStatuses(lastPoll))
       THEN /\ status' = "Completed"
            /\ success' = TRUE
       ELSE IF AnyFailed(CheckJobStatuses(lastPoll))
            THEN /\ status' = "Failed"
                 /\ UNCHANGED success
            ELSE UNCHANGED <<status, success>>
    /\ Goto("loop")
    /\ lastPoll' = <<>>
    /\ UNCHANGED <<config, sriovResp, docIdx, shared, nodePair, detected,
                   elapsed, mainDel, spc, sigDel, sigStatus, cluster,
                   createCalls, muxVars, toolVars>>

\* monitor_test_execution(): the loop body after the listing returned; when
\* neither test fires the task sleeps and returns to the loop head. The
\* listing is a local of the loop body and is dropped when the body ends.
Evaluate ==
    /\ ~exited /\ mpc = "evaluate"
    /\ IF AllCompleted(CheckJobStatuses(lastPoll))
       THEN /\ status' = "Completed"
            /\ success' = TRUE
            /\ Goto("flush")
       ELSE IF AnyFailed(CheckJobStatuses(lastPoll))
            THEN /\ status' = "Failed"
                 /\ Goto("flush")
                 /\ UNCHANGED success
            ELSE /\ Goto("loop")
                 /\ UNCHANGED <<status, success>>
    /\ lastPoll' = <<>>
    /\ UNCHANGED <<config, sriovResp, docIdx, shared, nodePair, detected,
                   elapsed, mainDel, spc, sigDel, sigStatus, cluster,
                   createCalls, muxVars, toolVars>>

\* wall-clock time passes while the monitor runs
Tick ==
    /\ ~exited /\ mpc \in {"loop", "evaluate"}
    /\ elapsed < MaxElapsed
    /\ elapsed' = elapsed + 1
    /\ UNCHANGED <<config, sriovResp, mpc, docIdx, status, success, shared, nodePair,
                   detected, result, lastPoll, mainDel, spc, sigDel, sigStatus,
                   cluster, createCalls, exited, exitCode, panicked, muxVars, toolVars>>

\* monitor_test_execution() returns Ok after the flush delay (its clock is a
\* local and is dropped), execute_test() returns the record, run() reaches
\* its cleanup gate
FinishMonitor ==
    /\ ~exited /\ mpc = "flush"
    /\ elapsed' = 0
    /\ GateThen
    /\ UNCHANGED <<config, sriovResp, docIdx, status, success, shared, nodePair, detected,
                   lastPoll, mainDel, spc, sigDel, sigStatus, cluster,
                   createCalls, muxVars, toolVars>>

\* the effect of one delete call on the cluster: the resource is removed; a
\* call for a resource that does not exist fails and the error is only logged
DeleteEffect(name) == cluster' = cluster \ {name}

\* cleanup_test_resources(): one delete call
MainDelete ==
    /\ ~exited /\ mpc = "cleanup" /\ mainDel < Len(CleanupOrder)
    /\ IF ~SliceOk
       THEN Panic /\ UNCHANGED <<cluster, mainDel>>
       ELSE /\ DeleteEffect(CleanupOrder[mainDel + 1])
            /\ mainDel' = mainDel + 1
            /\ Goto("cleanup")
    /\ UNCHANGED <<config, sriovResp, docIdx, status, success, shared, nodePair, detected,
                   lastPoll, elapsed, spc, sigDel, sigStatus, createCalls,
                   muxVars, toolVars>>

\* cleanup_test_resources() returns Ok, run() returns the record
MainCleanupDone ==
    /\ ~exited /\ mpc = "cleanup" /\ mainDel = Len(CleanupOrder)
    /\ Return(OkResult)
    /\ UNCHANGED <<config, sriovResp, docIdx, status, success, shared, nodePair, detected,
                   lastPoll, elapsed, mainDel, spc, sigDel, sigStatus, cluster,
                   createCalls, muxVars, toolVars>>

----------------------------------------------------------------------------
(* The CTRL-C task spawned by setup_signal_handler *)

\* SIGINT is delivered to the process. Without the task the default
\* disposition ends the process (status 130).
SigInt ==
    /\ ~exited /\ sigStatus = "NoSignal"
    /\ sigStatus' = status
    /\ IF spc = "wait"
       THEN /\ spc' = "handle"
            /\ UNCHANGED <<exited, exitCode>>
       ELSE /\ exited' = TRUE
            /\ exitCode' = 130
            /\ UNCHANGED spc
    /\ UNCHANGED <<config, sriovResp, mpc, docIdx, status, success, shared, nodePair,
                   detected, result, lastPoll, elapsed, mainDel, sigDel,
                   cluster, createCalls, panicked, muxVars, toolVars>>

\* the task wakes up, locks test_execution and looks for a stored record;
\* with none stored it exits at once
SigLock ==
    /\ ~exited /\ spc = "handle"
    /\ IF IsSome(shared)
       THEN /\ spc' = "cleanup"
            /\ UNCHANGED <<exited, exitCode>>
       ELSE /\ spc' = "done"
            /\ exited' = TRUE
            /\ exitCode' = 130
    /\ UNCHANGED <<config, sriovResp, mpc, docIdx, status, success, shared, nodePair,
                   detected, result, lastPoll, elapsed, mainDel, sigDel,
                   sigStatus, cluster, createCalls, panicked, muxVars, toolVars>>

\* cleanup_resources_static(): one delete call
SigDelete ==
    /\ ~exited /\ spc = "cleanup" /\ sigDel < Len(CleanupOrder)
    /\ IF ~SliceOk
       THEN /\ panicked' = TRUE
            /\ spc' = "done"
            /\ UNCHANGED <<cluster, sigDel>>
       ELSE /\ DeleteEffect(CleanupOrder[sigDel + 1])
            /\ sigDel' = sigDel + 1
            /\ UNCHANGED <<panicked, spc>>
    /\ UNCHANGED <<config, sriovResp, mpc, docIdx, status, success, shared, nodePair,
                   detected, result, lastPoll, elapsed, mainDel, sigStatus,
                   createCalls, exited, exitCode, muxVars, toolVars>>

\* cleanup_resources_static() returned: std::process::exit(130)
SigExit ==
    /\ ~exited /\ spc = "cleanup" /\ sigDel = Len(CleanupOrder)
    /\ spc' = "done"
    /\ exited' = TRUE
    /\ exitCode' = 130
    /\ UNCHANGED <<config, sriovResp, mpc, docIdx, status, success, shared, nodePair,
                   detected, result, lastPoll, elapsed, mainDel, sigDel,
                   sigStatus, cluster, createCalls, panicked, muxVars, toolVars>>

----------------------------------------------------------------------------

Next ==
    \/ Start
    \/ LoadWorkload
    \/ AnalyzeCluster
    \/ SelectPair
    \/ DiscoverSriov
    \/ SelectSriov
    \/ CreateExecution
    \/ DryRunRender
    \/ DeployRender
    \/ DeployCreate
    \/ StoreAndRun
    \/ LoopHead
    \/ Evaluate
    \/ Tick
    \/ FinishMonitor
    \/ MainDelete
    \/ MainCleanupDone
    \/ SigInt
    \/ SigLock
    \/ SigDelete
    \/ SigExit

Spec == Init /\ [][Next]_vars

----------------------------------------------------------------------------
(* The log/event multiplexer: the supervisor task of spawn_log_streamers,   *)
(* one follower per pod, the event watcher and the printer, all feeding or  *)
(* draining one unbounded channel.                                          *)

\* messages are <<pod_name, line>>; a line is a tuple of the pieces its
\* format string joins (a raw log line is a single piece)
LogLine(text) == <<text>>
BannerLine(pod) == <<"Logs starting for ", pod>>
NormalEventLine(reason, message) == <<"EVENT: ", reason, " - ", message>>
TypedEventLine(type, reason, message) ==
    <<"EVENT [", type, "]: ", reason, " - ", message>>

\* variant of the send: the message is put at the front of the queue
ChannelSend_Front(ch, msg) == <<msg>> \o ch

\* UnboundedSender::send: the message joins the back of the queue
ChannelSend(ch, msg) == Append(ch, msg)

\* items the event watch stream can deliver: an error, or an Event
EventItems ==
    { [ok |-> FALSE, involved |-> NoneOpt, type |-> NoneOpt, reason |-> NoneOpt] }
    \cup [ ok : {TRUE},
           involved : {NoneOpt, Some("pod-a"), Some("stranger")},
           type : {NoneOpt, Some("Normal"), Some("Warning")},
           reason : {NoneOpt, Some("Pulled")} ]

EventMessage == "msg"

ShownReasons ==
    {"Pulling", "Pulled", "Created", "Started", "Failed", "Scheduled",
     "FailedScheduling", "FailedMount"}

UnwrapOr(opt, default) == IF IsSome(opt) THEN opt[1] ELSE default

\* a test that shows every event
ShouldShow_Everything(event_type, reason) == TRUE

\* the watcher's should_show test
ShouldShow(event_type, reason) ==
    event_type # "Normal" \/ reason \in ShownReasons

\* the watcher's formatting of a shown event
FormatEvent(event_type, reason, message) ==
    IF event_type = "Normal"
    THEN NormalEventLine(reason, message)
    ELSE TypedEventLine(event_type, reason, message)

\* names of the listed pods (test_pod_names)
PodNames(list) == { list[i] : i \in 1..Len(list) }

\* the state in which monitor_test_execution has just spawned the
\* supervisor: the channel exists with one Sender, the printer is running,
\* the supervisor sleeps before listing the pods
MuxInit ==
    /\ config = [dry_run |-> FALSE, no_cleanup |-> FALSE,
                 cleanup_on_signal |-> TRUE, sriov_network |-> NoneOpt]
    /\ mpc = "loop"
    /\ docIdx = Len(Docs) + 1
    /\ status = "Running"
    /\ success = FALSE
    /\ shared = Some([status |-> "Deploying"])
    /\ nodePair = Some(S_Ib1)
    /\ detected = NoneOpt
    /\ sriovResp = NoResponse
    /\ result = NoResult
    /\ lastPoll = <<>>
    /\ elapsed = 0
    /\ mainDel = 0
    /\ spc = "wait"
    /\ sigDel = 0
    /\ sigStatus = "NoSignal"
    /\ cluster = {Docs[i] : i \in 1..Len(Docs)}
    /\ createCalls = Len(Docs)
    /\ exited = FALSE
    /\ exitCode = 0
    /\ panicked = FALSE
    /\ sup = "sleep"
    /\ podList = <<>>
    /\ fpc = [p \in Pods |-> "off"]
    /\ readLog = [p \in Pods |-> <<>>]
    /\ evCount = 0
    /\ wpc = "off"
    /\ chan = <<>>
    /\ senders = 1
    /\ ppc = "recv"
    /\ printed = <<>>
    /\ podColors = <<>>
    /\ ToolsIdle

\* supervisor: list the pods of the test; on an error return (its Sender is
\* dropped); otherwise spawn the event watcher and one follower per pod,
\* each with its own clone of the Sender
SupListPods ==
    /\ ~exited /\ sup = "sleep"
    /\ \E ok \in BOOLEAN, list \in PodLists :
          IF ok
          THEN /\ podList' = list
               /\ wpc' = "watch"
               /\ fpc' = [p \in Pods |->
                            IF p \in PodNames(list) THEN "sleep" ELSE fpc[p]]
               /\ senders' = senders + 1 + Len(list)
               /\ sup' = "join"
          ELSE /\ senders' = senders - 1
               /\ sup' = "returned"
               /\ UNCHANGED <<podList, wpc, fpc>>
    /\ UNCHANGED <<toolVars, orchVars, readLog, evCount, chan, ppc, printed, podColors>>

\* number of lines the followers of the pods in ps have read so far
RECURSIVE LinesRead(_, _)
LinesRead(log, ps) ==
    IF ps = {} THEN 0
    ELSE LET p == CHOOSE q \in ps : TRUE
         IN  Len(log[p]) + LinesRead(log, ps \ {p})

\* follower of pod p: open the log stream; on success announce it
FollowerOpen(p) ==
    /\ ~exited /\ fpc[p] = "sleep"
    /\ \E ok \in BOOLEAN :
          IF ok
          THEN /\ chan' = ChannelSend(chan, <<p, BannerLine(p)>>)
               /\ fpc' = [fpc EXCEPT ![p] = "read"]
               /\ UNCHANGED senders
          ELSE /\ fpc' = [fpc EXCEPT ![p] = "done"]
               /\ senders' = senders - 1
               /\ UNCHANGED chan
    /\ UNCHANGED <<toolVars, orchVars, sup, podList, readLog, evCount, wpc, ppc,
                   printed, podColors>>

\* follower of pod p: the stream yields a line, which is sent on
FollowerRead(p) ==
    /\ ~exited /\ fpc[p] = "read"
    /\ LinesRead(readLog, Pods) + evCount < MaxItems
    /\ \E text \in LineTexts :
          /\ readLog' = [readLog EXCEPT ![p] = Append(@, text)]
          /\ chan' = ChannelSend(chan, <<p, LogLine(text)>>)
    /\ UNCHANGED <<toolVars, orchVars, sup, podList, fpc, evCount, wpc, senders, ppc,
                   printed, podColors>>

\* follower of pod p: the stream ends or fails; the task ends and drops
\* its Sender
FollowerEnd(p) ==
    /\ ~exited /\ fpc[p] = "read"
    /\ fpc' = [fpc EXCEPT ![p] = "done"]
    /\ senders' = senders - 1
    /\ UNCHANGED <<toolVars, orchVars, sup, podList, readLog, evCount, wpc, chan, ppc,
                   printed, podColors>>

\* event watcher: one item of the watch stream
WatchEvent ==
    /\ ~exited /\ wpc = "watch"
    /\ LinesRead(readLog, Pods) + evCount < MaxItems
    /\ evCount' = evCount + 1
    /\ \E item \in EventItems :
          LET pod_name == UnwrapOr(item.involved, "unknown")
              reason == UnwrapOr(item.reason, "Unknown")
              event_type == UnwrapOr(item.type, "Normal")
          IN  IF /\ item.ok
                 /\ pod_name \in PodNames(podList)
                 /\ ShouldShow(event_type, reason)
              THEN chan' = ChannelSend(chan,
                       <<pod_name, FormatEvent(event_type, reason, EventMessage)>>)
              ELSE UNCHANGED chan
    /\ UNCHANGED <<toolVars, orchVars, sup, podList, fpc, readLog, wpc, senders, ppc,
                   printed, podColors>>

\* event watcher: the watch stream ends; the task ends and drops its Sender
WatchEnd ==
    /\ ~exited /\ wpc = "watch"
    /\ wpc' = "done"
    /\ senders' = senders - 1
    /\ UNCHANGED <<toolVars, orchVars, sup, podList, fpc, readLog, evCount, chan, ppc,
                   printed, podColors>>

\* supervisor: every streaming task has ended; drop the last Sender
SupJoin ==
    /\ ~exited /\ sup = "join"
    /\ wpc = "done"
    /\ \A p \in PodNames(podList) : fpc[p] = "done"
    /\ senders' = senders - 1
    /\ sup' = "await_printer"
    /\ UNCHANGED <<toolVars, orchVars, podList, fpc, readLog, evCount, wpc, chan, ppc,
                   printed, podColors>>

\* supervisor: the printer has ended
SupDone ==
    /\ ~exited /\ sup = "await_printer" /\ ppc = "done"
    /\ sup' = "done"
    /\ UNCHANGED <<toolVars, orchVars, podList, fpc, readLog, evCount, wpc, chan,
                   senders, ppc, printed, podColors>>

\* printer: colour index of a pod, assigned on first sight (rotating palette)
ColorOf(colors, pod) ==
    IF pod \in DOMAIN colors THEN colors[pod]
    ELSE Cardinality(DOMAIN colors) % 6

\* printer: take the oldest message of the channel and print it
PrinterRecv ==
    /\ ~exited /\ ppc = "recv" /\ Len(chan) > 0
    /\ LET pod_name == Head(chan)[1]
           line == Head(chan)[2]
           idx == ColorOf(podColors, pod_name)
       IN  /\ podColors' = [q \in DOMAIN podColors \cup {pod_name} |->
                               IF q = pod_name THEN idx ELSE podColors[q]]
           /\ printed' = Append(printed, <<pod_name, line>>)
    /\ chan' = Tail(chan)
    /\ UNCHANGED <<toolVars, orchVars, sup, podList, fpc, readLog, evCount, wpc,
                   senders, ppc>>

\* printer: recv() yields None once the channel is empty and every Sender
\* has been dropped
PrinterEnd ==
    /\ ~exited /\ ppc = "recv" /\ Len(chan) = 0 /\ senders = 0
    /\ ppc' = "done"
    /\ UNCHANGED <<toolVars, orchVars, sup, podList, fpc, readLog, evCount, wpc, chan,
                   senders, printed, podColors>>

\* the process ends (run() returned or the signal handler exited): every
\* task of the multiplexer stops where it is
MuxProcessExit ==
    /\ ~exited
    /\ exited' = TRUE
    /\ UNCHANGED <<config, sriovResp, mpc, docIdx, status, success, shared,
                   nodePair, detected, result, lastPoll, elapsed, mainDel, spc,
                   sigDel, sigStatus, cluster, createCalls, exitCode, panicked,
                   muxVars, toolVars>>

MuxNext ==
    \/ SupListPods
    \/ \E p \in Pods : FollowerOpen(p)
    \/ \E p \in Pods : FollowerRead(p)
    \/ \E p \in Pods : FollowerEnd(p)
    \/ WatchEvent
    \/ WatchEnd
    \/ SupJoin
    \/ SupDone
    \/ PrinterRecv
    \/ PrinterEnd
    \/ MuxProcessExit

MuxSpec == MuxInit /\ [][MuxNext]_vars

----------------------------------------------------------------------------
(* The multiplexer together with the end of the monitor: the monitor        *)
(* observes a terminal state, waits for the flush delay, drops the          *)
(* JoinHandle of the supervisor and returns; run() cleans up and returns.   *)

\* monitor_test_execution: the loop ends with the record in a terminal state
MonitorObserveTerminal ==
    /\ ~exited /\ mpc = "loop" /\ status = "Running"
    /\ \E t \in {"Completed", "Failed", "TimedOut"} :
          /\ status' = t
          /\ success' = (t = "Completed")
    /\ mpc' = "flush"
    /\ UNCHANGED <<config, sriovResp, docIdx, shared, nodePair, detected,
                   result, lastPoll, elapsed, mainDel, spc, sigDel, sigStatus,
                   cluster, createCalls, exited, exitCode, panicked, muxVars, toolVars>>

\* monitor_test_execution: after the flush delay the JoinHandle is dropped,
\* which detaches the supervisor task and leaves every Sender where it is;
\* run() then passes its cleanup gate and returns Ok, and the process ends
MonitorDropHandleAndReturn ==
    /\ ~exited /\ mpc = "flush"
    /\ IF ShouldCleanup(config)
       THEN /\ mainDel' = Len(CleanupOrder)
            /\ cluster' = {}
       ELSE UNCHANGED <<mainDel, cluster>>
    /\ Return(OkResult)
    /\ UNCHANGED <<config, sriovResp, docIdx, status, success, shared,
                   nodePair, detected, lastPoll, elapsed, spc, sigDel,
                   sigStatus, createCalls, muxVars, toolVars>>

DrainNext ==
    \/ SupListPods
    \/ \E p \in Pods : FollowerOpen(p)
    \/ \E p \in Pods : FollowerRead(p)
    \/ \E p \in Pods : FollowerEnd(p)
    \/ WatchEvent
    \/ WatchEnd
    \/ SupJoin
    \/ SupDone
    \/ PrinterRecv
    \/ PrinterEnd
    \/ MonitorObserveTerminal
    \/ MonitorDropHandleAndReturn

DrainSpec == MuxInit /\ [][DrainNext]_vars

----------------------------------------------------------------------------
(* Cluster scan: string helpers *)

\* str::starts_with / str::ends_with
StartsWith(s, prefix) ==
    Len(prefix) <= Len(s) /\ SubSeq(s, 1, Len(prefix)) = prefix
EndsWith(s, suffix) ==
    Len(suffix) <= Len(s)
        /\ SubSeq(s, Len(s) - Len(suffix) + 1, Len(s)) = suffix

\* s.split(ch).collect::<Vec<_>>()
RECURSIVE Split(_, _)
Split(s, ch) ==
    IF \E i \in 1..Len(s) : s[i] = ch
    THEN LET i == CHOOSE j \in 1..Len(s) :
                      s[j] = ch /\ \A k \in 1..(j-1) : s[k] # ch
         IN  <<SubSeq(s, 1, i - 1)>> \o Split(SubSeq(s, i + 1, Len(s)), ch)
    ELSE <<s>>

Digits == <<"0","1","2","3","4","5","6","7","8","9">>
IsDigit(c) == \E d \in 1..10 : Digits[d] = c
DigitVal(c) == (CHOOSE d \in 1..10 : Digits[d] = c) - 1

\* a decimal numeral without its leading zeros
RECURSIVE StripZeros(_)
StripZeros(s) ==
    IF Len(s) > 1 /\ s[1] = "0" THEN StripZeros(Tail(s)) ELSE s

\* a <= b for numerals of the same length
RECURSIVE NumeralLeq(_, _)
NumeralLeq(a, b) ==
    IF Len(a) = 0 THEN TRUE
    ELSE IF DigitVal(a[1]) # DigitVal(b[1]) THEN DigitVal(a[1]) < DigitVal(b[1])
    ELSE NumeralLeq(Tail(a), Tail(b))

\* a <= b for numerals without leading zeros
Leq(a, b) == Len(a) < Len(b) \/ (Len(a) = Len(b) /\ NumeralLeq(a, b))

\* u32::MAX, as a numeral (it exceeds the integers of the model checker)
U32MaxNumeral == <<"4","2","9","4","9","6","7","2","9","5">>

\* str::parse::<u32>(): an optional '+', then one or more ASCII digits, value
\* within u32; anything else is an error (None here). The value is kept as
\* its numeral.
ParseU32(s) ==
    LET body == IF Len(s) > 0 /\ s[1] = "+" THEN Tail(s) ELSE s
    IN  IF /\ Len(body) > 0
           /\ \A i \in 1..Len(body) : IsDigit(body[i])
           /\ Leq(StripZeros(body), U32MaxNumeral)
        THEN Some(StripZeros(body))
        ELSE NoneOpt

\* Display of an unsigned integer
RECURSIVE U32ToString(_)
U32ToString(n) ==
    IF n < 10 THEN <<Digits[n + 1]>>
    ELSE U32ToString(n \div 10) \o <<Digits[(n % 10) + 1]>>

\* Option::or_else
OrElse(a, b) == IF IsSome(a) THEN a ELSE b

\* BTreeMap::get and BTreeMap::contains_key
Get(map, k) == IF k \in DOMAIN map THEN Some(map[k]) ELSE NoneOpt
ContainsKey(map, k) == k \in DOMAIN map
EmptyMap == <<>>

\* Option<&BTreeMap>::unwrap_or(&empty) / unwrap_or_default()
MapOrEmpty(opt) == IF IsSome(opt) THEN opt[1] ELSE EmptyMap

----------------------------------------------------------------------------
(* Cluster scan: label, resource and annotation keys read by the detectors *)

L_os_id == <<"n","o","d","e",".","o","p","e","n","s","h","i","f","t",".","i","o","/","o","s","_","i","d">>
P_coreweave == <<"i","b",".","c","o","r","e","w","e","a","v","e",".","c","l","o","u","d","/">>
L_cw_speed == <<"i","b",".","c","o","r","e","w","e","a","v","e",".","c","l","o","u","d","/","s","p","e","e","d">>
L_cw_leafgroup == <<"i","b",".","c","o","r","e","w","e","a","v","e",".","c","l","o","u","d","/","l","e","a","f","g","r","o","u","p">>
P_gke == <<"c","l","o","u","d",".","g","o","o","g","l","e",".","c","o","m","/","g","k","e","-">>
L_gke_nodepool == <<"c","l","o","u","d",".","g","o","o","g","l","e",".","c","o","m","/","g","k","e","-","n","o","d","e","p","o","o","l">>
L_gke_gvnic == <<"c","l","o","u","d",".","g","o","o","g","l","e",".","c","o","m","/","g","k","e","-","g","v","n","i","c">>
L_gce_block == <<"c","l","o","u","d",".","g","o","o","g","l","e",".","c","o","m","/","g","c","e","-","t","o","p","o","l","o","g","y","-","b","l","o","c","k">>
L_gce_subblock == <<"c","l","o","u","d",".","g","o","o","g","l","e",".","c","o","m","/","g","c","e","-","t","o","p","o","l","o","g","y","-","s","u","b","b","l","o","c","k">>
L_gke_zone == <<"t","o","p","o","l","o","g","y",".","g","k","e",".","i","o","/","z","o","n","e">>
L_zone == <<"t","o","p","o","l","o","g","y",".","k","u","b","e","r","n","e","t","e","s",".","i","o","/","z","o","n","e">>
L_fd_zone == <<"f","a","i","l","u","r","e","-","d","o","m","a","i","n",".","b","e","t","a",".","k","u","b","e","r","n","e","t","e","s",".","i","o","/","z","o","n","e">>
L_rack == <<"t","o","p","o","l","o","g","y",".","k","u","b","e","r","n","e","t","e","s",".","i","o","/","r","a","c","k">>
L_rdma_capable == <<"f","e","a","t","u","r","e",".","n","o","d","e",".","k","u","b","e","r","n","e","t","e","s",".","i","o","/","r","d","m","a",".","c","a","p","a","b","l","e">>

R_roce_gdr == <<"r","d","m","a","/","r","o","c","e","_","g","d","r">>
R_ib == <<"r","d","m","a","/","i","b">>
P_gke_rdma == <<"n","e","t","w","o","r","k","i","n","g",".","g","k","e",".","i","o",".","n","e","t","w","o","r","k","s","/","r","d","m","a","-">>
P_gke_gvnic == <<"n","e","t","w","o","r","k","i","n","g",".","g","k","e",".","i","o",".","n","e","t","w","o","r","k","s","/","g","v","n","i","c","-">>
R_gke_rdma0 == <<"n","e","t","w","o","r","k","i","n","g",".","g","k","e",".","i","o",".","n","e","t","w","o","r","k","s","/","r","d","m","a","-","0">>
R_gke_rdma0_ip == <<"n","e","t","w","o","r","k","i","n","g",".","g","k","e",".","i","o",".","n","e","t","w","o","r","k","s","/","r","d","m","a","-","0",".","I","P">>
R_gke_gvnic0 == <<"n","e","t","w","o","r","k","i","n","g",".","g","k","e",".","i","o",".","n","e","t","w","o","r","k","s","/","g","v","n","i","c","-","0">>
S_dot_IP == <<".","I","P">>

A_gke_networks == <<"n","e","t","w","o","r","k","i","n","g",".","g","k","e",".","i","o","/","n","e","t","w","o","r","k","s">>
A_transit == <<"k","8","s",".","o","v","n",".","o","r","g","/","n","o","d","e","-","t","r","a","n","s","i","t","-","s","w","i","t","c","h","-","p","o","r","t","-","i","f","a","d","d","r">>

V_true == <<"t","r","u","e">>
V_false == <<"f","a","l","s","e">>
V_0G == <<"0","G">>
V_400G == <<"4","0","0","G">>

----------------------------------------------------------------------------
(* Cluster scan: the Node objects the API server may list *)

\* the result of serde_json::from_str on an annotation value
JsonBad == [ok |-> FALSE]
\* a JSON array of network objects; name is the result of
\* get("name").as_str(), cidrs the result of get("cidrs").as_array() with
\* every element replaced by its as_str()
JsonNetworks(nets) == [ok |-> TRUE, networks |-> nets]
Network(name, cidrs) == [name |-> name, cidrs |-> cidrs]
\* a JSON object; ipv4 is the result of get("ipv4").as_str()
JsonTransit(ipv4) == [ok |-> TRUE, ipv4 |-> ipv4]

NodeNames == {NoneOpt, Some(<<"n","o","d","e","-","a">>)}

ZoneA == <<"u","s","-","a">>
PoolA == <<"p","o","o","l","1">>

LabelChoices ==
    { NoneOpt,
      Some(EmptyMap),
      Some(L_os_id :> <<"r","h","c","o","s">>),
      Some(L_os_id :> <<"r","h","c","o","s">> @@ L_rdma_capable :> V_true),
      Some(L_os_id :> <<"r","h","c","o","s">> @@ L_zone :> ZoneA),
      Some(L_os_id :> <<"r","h","c","o","s">> @@ L_cw_speed :> V_0G),
      Some(L_cw_speed :> V_0G @@ L_cw_leafgroup :> <<"l","g","1">>),
      Some(L_cw_speed :> V_400G @@ L_cw_leafgroup :> <<"l","g","1">>),
      Some(L_cw_leafgroup :> <<"l","g","1">>),
      Some(L_gke_nodepool :> PoolA @@ L_gce_block :> <<"b","l","o","c","k","i","d","-","0","0","0","1">>),
      Some(L_gke_nodepool :> PoolA @@ L_gce_block :> <<"b","1">>),
      Some(L_gke_nodepool :> PoolA @@ L_gce_subblock :> <<"s","u","b","1">>),
      Some(L_gke_nodepool :> PoolA @@ L_zone :> ZoneA @@ L_gke_gvnic :> V_true),
      Some(L_gke_nodepool :> PoolA @@ L_gke_zone :> ZoneA),
      Some(L_gke_gvnic :> V_false @@ L_gke_zone :> ZoneA),
      Some(L_gke_nodepool :> PoolA @@ L_cw_speed :> V_400G),
      Some(L_gke_nodepool :> PoolA @@ L_os_id :> <<"r","h","c","o","s">>),
      Some(L_rdma_capable :> V_true @@ L_zone :> ZoneA),
      Some(L_rdma_capable :> V_false @@ L_rack :> <<"r","7">>),
      Some(L_gke_zone :> ZoneA),
      Some(L_fd_zone :> ZoneA) }

\* status.capacity (None also stands for a Node without status)
CapacityChoices ==
    { NoneOpt,
      Some(EmptyMap),
      Some(R_roce_gdr :> <<"8">>),
      Some(R_ib :> <<"1">>),
      Some(R_roce_gdr :> <<"8">> @@ R_ib :> <<"1">>),
      Some(R_gke_rdma0 :> <<"1">> @@ R_gke_rdma0_ip :> <<"1">>),
      Some(R_gke_gvnic0 :> <<"1">>) }

FabricNetworks ==
    JsonNetworks(<<Network(Some(<<"d","e","f","a","u","l","t">>), NoneOpt),
                   Network(Some(<<"r","d","m","a","-","0">>), Some(<<Some(<<"1","0",".","1",".","2",".","0","/","2","4">>)>>))>>)

AnnotationChoices ==
    { NoneOpt,
      Some(EmptyMap),
      Some(A_gke_networks :> JsonBad),
      Some(A_gke_networks :> FabricNetworks),
      Some(A_gke_networks :>
              JsonNetworks(<<Network(Some(<<"r","d","m","a","-","0">>), Some(<<>>))>>)),
      Some(A_gke_networks :>
              JsonNetworks(<<Network(Some(<<"r","d","m","a","-","0">>), Some(<<NoneOpt>>)),
                             Network(Some(<<"r","d","m","a","-","0">>), Some(<<Some(<<"1","0",".","1">>)>>))>>)),
      Some(A_transit :> JsonTransit(Some(<<"1","0","0",".","8","8",".","0",".","5","/","1","6">>))),
      Some(A_transit :> JsonBad) }

NodeAddress(type_, address) == [type_ |-> type_, address |-> address]
S_InternalIP == <<"I","n","t","e","r","n","a","l","I","P">>

\* status.addresses
AddressChoices ==
    { NoneOpt,
      Some(<<NodeAddress(<<"H","o","s","t","n","a","m","e">>, <<"n","o","d","e","-","a">>),
             NodeAddress(S_InternalIP, <<"1","0",".","0",".","0",".","5","7">>)>>),
      Some(<<NodeAddress(S_InternalIP, <<"f","d","0","0",":",":","1">>)>>),
      Some(<<NodeAddress(S_InternalIP, <<"1","0",".","0",".","0",".","4","2","9","4","9","6","7","2","9","5">>)>>) }

\* nodes that vary in what the RDMA detectors read
RdmaNodes ==
    [name : NodeNames, labels : LabelChoices, annotations : {NoneOpt},
     capacity : CapacityChoices, addresses : {NoneOpt}]

\* nodes that vary in what the topology detectors read
TopoNodes ==
    [name : NodeNames, labels : LabelChoices, annotations : AnnotationChoices,
     capacity : {NoneOpt}, addresses : AddressChoices]

Nodes == RdmaNodes \cup TopoNodes

\* nodes that vary in what a topology rule reads
RuleNodes ==
    [name : NodeNames, labels : LabelChoices, annotations : {NoneOpt},
     capacity : {NoneOpt, Some(R_ib :> <<"1">>)}, addresses : {NoneOpt}]

----------------------------------------------------------------------------
(* Cluster scan: platform detection (platforms.rs) *)

PlatformTypes == {"OpenShift", "CoreWeave", "GKE", "GenericKubernetes"}

OpenShift_detect_platform(labels) == ContainsKey(labels, L_os_id)
CoreWeave_detect_platform(labels) ==
    \E k \in DOMAIN labels : StartsWith(k, P_coreweave)
Gke_detect_platform(labels) ==
    \E k \in DOMAIN labels : StartsWith(k, P_gke)
Generic_detect_platform(labels) == TRUE

Detectors == <<"OpenShift", "CoreWeave", "GKE", "GenericKubernetes">>

DetectPlatform(p, labels) ==
    CASE p = "OpenShift" -> OpenShift_detect_platform(labels)
      [] p = "CoreWeave" -> CoreWeave_detect_platform(labels)
      [] p = "GKE" -> Gke_detect_platform(labels)
      [] OTHER -> Generic_detect_platform(labels)

\* the first detector, in list order, whose detect_platform is true
RECURSIVE FirstDetector(_, _)
FirstDetector(detectors, labels) ==
    IF detectors = <<>> THEN "GenericKubernetes"
    ELSE IF DetectPlatform(Head(detectors), labels) THEN Head(detectors)
    ELSE FirstDetector(Tail(detectors), labels)

\* the list in a different order
Detectors_GkeFirst == <<"GKE", "CoreWeave", "OpenShift", "GenericKubernetes">>
detect_platform_from_labels_GkeFirst(labels) ==
    FirstDetector(Detectors_GkeFirst, labels)

detect_platform_from_labels(labels) == FirstDetector(Detectors, labels)

----------------------------------------------------------------------------
(* Cluster scan: RDMA capability (platforms.rs) *)

RdmaResult(capable, rdma_type, rdma_resource) ==
    [capable |-> capable, rdma_type |-> rdma_type, rdma_resource |-> rdma_resource]
NotRdma == RdmaResult(FALSE, NoneOpt, NoneOpt)

\* format!("{:?}", q) of a Quantity
QuantityDebug(q) == <<"Q","u","a","n","t","i","t","y","(","\"">> \o q \o <<"\"",")">>

RoceGdr(cap) ==
    RdmaResult(TRUE, Some("RoCE GPU Direct"),
               Some(<<"r","d","m","a","/","r","o","c","e","_","g","d","r",":"," ">> \o QuantityDebug(cap[R_roce_gdr])))
Infiniband(cap) ==
    RdmaResult(TRUE, Some("InfiniBand"),
               Some(<<"r","d","m","a","/","i","b",":"," ">> \o QuantityDebug(cap[R_ib])))

SpeedIs0G(labels) == Get(labels, L_cw_speed) = Some(V_0G)

\* the detector without the speed validation
CoreWeave_detect_rdma_capability_NoSpeedCheck(node) ==
    IF IsSome(node.capacity) /\ ContainsKey(node.capacity[1], R_roce_gdr)
    THEN RoceGdr(node.capacity[1])
    ELSE IF IsSome(node.capacity) /\ ContainsKey(node.capacity[1], R_ib)
    THEN Infiniband(node.capacity[1])
    ELSE NotRdma

CoreWeave_detect_rdma_capability(node) ==
    LET labels == MapOrEmpty(node.labels)
    IN  IF IsSome(node.capacity) /\ ContainsKey(node.capacity[1], R_roce_gdr)
        THEN IF SpeedIs0G(labels) THEN NotRdma ELSE RoceGdr(node.capacity[1])
        ELSE IF IsSome(node.capacity) /\ ContainsKey(node.capacity[1], R_ib)
        THEN IF SpeedIs0G(labels) THEN NotRdma ELSE Infiniband(node.capacity[1])
        ELSE NotRdma

OpenShift_detect_rdma_capability(node) ==
    LET labels == MapOrEmpty(node.labels)
    IN  IF IsSome(node.capacity) /\ ContainsKey(node.capacity[1], R_roce_gdr)
        THEN RoceGdr(node.capacity[1])
        ELSE IF IsSome(node.capacity) /\ ContainsKey(node.capacity[1], R_ib)
        THEN Infiniband(node.capacity[1])
        ELSE IF Get(labels, L_rdma_capable) = Some(V_true)
        THEN RdmaResult(TRUE, Some("Generic RDMA"), NoneOpt)
        ELSE NotRdma

Generic_detect_rdma_capability(node) ==
    LET labels == MapOrEmpty(node.labels)
    IN  IF IsSome(node.capacity) /\ ContainsKey(node.capacity[1], R_roce_gdr)
        THEN RoceGdr(node.capacity[1])
        ELSE IF IsSome(node.capacity) /\ ContainsKey(node.capacity[1], R_ib)
        THEN Infiniband(node.capacity[1])
        ELSE IF Get(labels, L_rdma_capable) = Some(V_true)
        THEN RdmaResult(TRUE, Some("Generic RDMA"), NoneOpt)
        ELSE NotRdma

\* the number of capacity keys with the prefix that do not end in ".IP"
InterfaceCount(cap, prefix) ==
    Cardinality({k \in DOMAIN cap : StartsWith(k, prefix) /\ ~EndsWith(k, S_dot_IP)})

Gke_detect_rdma_capability(node) ==
    LET labels == MapOrEmpty(node.labels)
        cap == MapOrEmpty(node.capacity)
    IN  IF \E k \in DOMAIN cap : StartsWith(k, P_gke_rdma)
        THEN RdmaResult(TRUE, Some("GKE RDMA"),
                 Some(U32ToString(InterfaceCount(cap, P_gke_rdma))
                          \o <<" ","R","D","M","A"," ","i","n","t","e","r","f","a","c","e","s">>))
        ELSE IF \E k \in DOMAIN cap : StartsWith(k, P_gke_gvnic)
        THEN RdmaResult(TRUE, Some("gVNIC (Google Virtual NIC)"),
                 Some(U32ToString(InterfaceCount(cap, P_gke_gvnic))
                          \o <<" ","g","V","N","I","C"," ","i","n","t","e","r","f","a","c","e","s">>))
        ELSE IF Get(labels, L_gke_gvnic) = Some(V_true)
        THEN RdmaResult(TRUE, Some("gVNIC (Google Virtual NIC)"),
                 Some(<<"g","V","N","I","C"," ","e","n","a","b","l","e","d">>))
        ELSE NotRdma

detect_rdma_capability(p, node) ==
    CASE p = "OpenShift" -> OpenShift_detect_rdma_capability(node)
      [] p = "CoreWeave" -> CoreWeave_detect_rdma_capability(node)
      [] p = "GKE" -> Gke_detect_rdma_capability(node)
      [] OTHER -> Generic_detect_rdma_capability(node)

----------------------------------------------------------------------------
(* Cluster scan: topology block detection (platforms.rs) *)

\* detection_method is kept as the pieces of its format string
TopologyDetection(topology_type, detection_method, confidence) ==
    [topology_type |-> topology_type, detection_method |-> detection_method,
     confidence |-> confidence]

\* the outcome of a detector: it panics, or returns (block, detection)
TopoResult(block, detection) ==
    [panic |-> FALSE, block |-> block, detection |-> detection]
TopoPanic == [panic |-> TRUE, block |-> NoneOpt, detection |-> NoneOpt]
NoTopo == TopoResult(NoneOpt, NoneOpt)

\* format!("{}.{}.{}", parts[0], parts[1], parts[2])
Dotted3(parts) == parts[1] \o <<".">> \o parts[2] \o <<".">> \o parts[3]

\* an address that extract_ip_topology_block returns from
UsableParts(parts) == Len(parts) >= 4 /\ IsSome(ParseU32(parts[4]))

IsUsableInternalIP(addr) ==
    addr.type_ = S_InternalIP /\ UsableParts(Split(addr.address, "."))

\* the first address the loop over status.addresses returns from
RECURSIVE FirstUsable(_)
FirstUsable(addrs) ==
    IF addrs = <<>> THEN NoneOpt
    ELSE IF IsUsableInternalIP(Head(addrs)) THEN Some(Head(addrs))
    ELSE FirstUsable(Tail(addrs))

\* with group = last_octet / 10: the numeral of group * 10 is the one of
\* last_octet with its last digit set to 0
IpRangeStart(last) ==
    StripZeros(SubSeq(last, 1, Len(last) - 1) \o <<"0">>)

\* (group + 1) * 10 leaves u32 exactly when last_octet >= 4294967290: with
\* overflow checks the operation panics, without them it wraps to 4, and the
\* end of the range is 3
IpRangeOverflows(last) == Leq(<<"4","2","9","4","9","6","7","2","9","0">>, last)
IpRangeEnd(last) ==
    IF IpRangeOverflows(last) THEN <<"3">>
    ELSE StripZeros(SubSeq(last, 1, Len(last) - 1) \o <<"9">>)

SubnetOf(parts) ==
    IF Len(parts) >= 3 THEN Some(<<"s","u","b","n","e","t","-">> \o Dotted3(parts)) ELSE NoneOpt

TransitSubnet(annotations) ==
    IF /\ ContainsKey(annotations, A_transit)
       /\ annotations[A_transit].ok
       /\ IsSome(annotations[A_transit].ipv4)
    THEN SubnetOf(Split(Split(annotations[A_transit].ipv4[1], "/")[1], "."))
    ELSE NoneOpt

\* the block of an address, or the panic of the overflow
IpRange(parts, last, overflowChecks) ==
    IF overflowChecks /\ IpRangeOverflows(last)
    THEN [panic |-> TRUE, value |-> NoneOpt]
    ELSE [panic |-> FALSE,
          value |-> Some(<<"i","p","-","r","a","n","g","e","-">> \o Dotted3(parts) \o <<".">>
                           \o IpRangeStart(last) \o <<"-">> \o IpRangeEnd(last))]

IpRangeOf(parts, overflowChecks) ==
    IpRange(parts, ParseU32(parts[4])[1], overflowChecks)

IpBlockOr(usable, annotations, overflowChecks) ==
    IF IsSome(usable)
    THEN IpRangeOf(Split(usable[1].address, "."), overflowChecks)
    ELSE [panic |-> FALSE, value |-> TransitSubnet(annotations)]

\* the result is [panic, value]; overflowChecks is the build's setting
extract_ip_topology_block(node, annotations, overflowChecks) ==
    IpBlockOr(FirstUsable(IF IsSome(node.addresses) THEN node.addresses[1] ELSE <<>>),
              annotations, overflowChecks)

\* the fabric domain one network object yields, if any
FabricOf(parts) ==
    IF Len(parts) >= 3 THEN Some(<<"f","a","b","r","i","c","-">> \o Dotted3(parts)) ELSE NoneOpt

NetworkFabric(network) ==
    IF /\ IsSome(network.name) /\ IsSome(network.cidrs)
       /\ network.name[1] = <<"r","d","m","a","-","0">>
       /\ network.cidrs[1] # <<>>
       /\ IsSome(network.cidrs[1][1])
    THEN FabricOf(Split(Split(network.cidrs[1][1][1], "/")[1], "."))
    ELSE NoneOpt

\* the first network, in array order, that yields a fabric domain
RECURSIVE FirstFabric(_)
FirstFabric(nets) ==
    IF nets = <<>> THEN NoneOpt
    ELSE IF IsSome(NetworkFabric(Head(nets))) THEN NetworkFabric(Head(nets))
    ELSE FirstFabric(Tail(nets))

extract_gke_fabric_domain(annotations) ==
    IF ContainsKey(annotations, A_gke_networks) /\ annotations[A_gke_networks].ok
    THEN FirstFabric(annotations[A_gke_networks].networks)
    ELSE NoneOpt

CoreWeave_detect_topology_block(node, labels, annotations) ==
    IF ContainsKey(labels, L_cw_leafgroup)
    THEN TopoResult(Some(labels[L_cw_leafgroup]),
             Some(TopologyDetection("LeafGroup", <<"CoreWeave leafgroup label">>, "High")))
    ELSE NoTopo

IpTopology(ip) ==
    IF ip.panic THEN TopoPanic
    ELSE IF IsSome(ip.value)
    THEN TopoResult(ip.value,
             Some(TopologyDetection(
                 IF StartsWith(ip.value[1], <<"i","p","-","r","a","n","g","e">>) THEN "IpRange" ELSE "Subnet",
                 <<"IP address pattern analysis">>, "Medium")))
    ELSE NoTopo

OpenShift_detect_topology_block(node, labels, annotations, overflowChecks) ==
    IF ContainsKey(labels, L_zone)
    THEN TopoResult(Some(<<"z","o","n","e","-">> \o labels[L_zone]),
             Some(TopologyDetection("Zone",
                 <<"Kubernetes topology.kubernetes.io/zone label">>, "High")))
    ELSE IF ContainsKey(labels, L_fd_zone)
    THEN TopoResult(Some(<<"z","o","n","e","-">> \o labels[L_fd_zone]),
             Some(TopologyDetection("Zone",
                 <<"Kubernetes failure-domain.beta.kubernetes.io/zone label">>, "High")))
    ELSE IpTopology(extract_ip_topology_block(node, annotations, overflowChecks))

\* the length of the &s[..8] slices
BlockPrefixLen == 8

\* labels.get("topology.gke.io/zone").or_else(|| labels.get("topology.kubernetes.io/zone"))
GkeZone(labels) == OrElse(Get(labels, L_gke_zone), Get(labels, L_zone))

ZoneNodepool(zone, nodepool) == zone[1] \o <<"-">> \o nodepool[1]

GkeZoneTopology(labels, zone, nodepool) ==
    IF IsSome(zone) /\ IsSome(nodepool)
    THEN TopoResult(Some(ZoneNodepool(zone, nodepool)),
             Some(TopologyDetection("Zone", <<"GKE zone+nodepool topology">>, "Medium")))
    ELSE IF ContainsKey(labels, L_gke_zone)
    THEN TopoResult(Some(<<"g","k","e","-","z","o","n","e","-">> \o labels[L_gke_zone]),
             Some(TopologyDetection("Zone", <<"GKE topology.gke.io/zone label">>, "Medium")))
    ELSE NoTopo

GkeFabricTopology(labels, fabric_domain) ==
    IF IsSome(fabric_domain)
    THEN TopoResult(fabric_domain,
             Some(TopologyDetection("Hardware",
                 <<"GKE RDMA fabric domain analysis">>, "High")))
    ELSE GkeZoneTopology(labels, GkeZone(labels), Get(labels, L_gke_nodepool))

Gke_detect_topology_block(node, labels, annotations) ==
    IF ContainsKey(labels, L_gce_block)
    THEN IF Len(labels[L_gce_block]) < BlockPrefixLen THEN TopoPanic
         ELSE TopoResult(
                  Some(<<"b","l","o","c","k","-">> \o SubSeq(labels[L_gce_block], 1, BlockPrefixLen)),
                  Some(TopologyDetection("GkeBlock",
                      <<"GKE cloud.google.com/gce-topology-block label">>, "High")))
    ELSE IF ContainsKey(labels, L_gce_subblock)
    THEN IF Len(labels[L_gce_subblock]) < BlockPrefixLen THEN TopoPanic
         ELSE TopoResult(
                  Some(<<"s","u","b","b","l","o","c","k","-">> \o SubSeq(labels[L_gce_subblock], 1, BlockPrefixLen)),
                  Some(TopologyDetection("GkeBlock",
                      <<"GKE cloud.google.com/gce-topology-subblock label">>, "Medium")))
    ELSE GkeFabricTopology(labels, extract_gke_fabric_domain(annotations))

Generic_detect_topology_block(node, labels, annotations) ==
    IF ContainsKey(labels, L_zone)
    THEN TopoResult(Some(<<"z","o","n","e","-">> \o labels[L_zone]),
             Some(TopologyDetection("Zone",
                 <<"Kubernetes topology.kubernetes.io/zone label">>, "High")))
    ELSE IF ContainsKey(labels, L_fd_zone)
    THEN TopoResult(Some(<<"z","o","n","e","-">> \o labels[L_fd_zone]),
             Some(TopologyDetection("Zone",
                 <<"Kubernetes failure-domain.beta.kubernetes.io/zone label">>, "High")))
    ELSE IF ContainsKey(labels, L_rack)
    THEN TopoResult(Some(<<"r","a","c","k","-">> \o labels[L_rack]),
             Some(TopologyDetection("Rack",
                 <<"Kubernetes topology.kubernetes.io/rack label">>, "High")))
    ELSE NoTopo

detect_topology_block(p, node, labels, annotations, overflowChecks) ==
    CASE p = "OpenShift" ->
             OpenShift_detect_topology_block(node, labels, annotations, overflowChecks)
      [] p = "CoreWeave" -> CoreWeave_detect_topology_block(node, labels, annotations)
      [] p = "GKE" -> Gke_detect_topology_block(node, labels, annotations)
      [] OTHER -> Generic_detect_topology_block(node, labels, annotations)

\* PlatformSpecificInfo.gke_fabric_domain of extract_platform_specific_info:
\* only the GKE detector fills it
gke_fabric_domain(p, annotations) ==
    IF p = "GKE" THEN extract_gke_fabric_domain(annotations) ELSE NoneOpt

----------------------------------------------------------------------------
(* Cluster scan: custom topology rule (topology_rule.rs) *)

\* cel::Value, the variants a rule can evaluate to
CelString(s) == [kind |-> "String", v |-> s]
CelInt(i) == [kind |-> "Int", v |-> i]
CelUInt(u) == [kind |-> "UInt", v |-> u]
CelNull == [kind |-> "Null", v |-> 0]
CelBool(b) == [kind |-> "Bool", v |-> b]

\* the outcome of a fallible library call
CelOk(value) == [ok |-> TRUE, value |-> value]
CelErr == [ok |-> FALSE, value |-> CelNull]

\* extract(input, pattern): pattern_ok is the outcome of Regex::new, captures
\* the outcome of re.captures(input): None, or the groups (group 0 first), each
\* the text it matched or None
extract_regex(pattern_ok, captures) ==
    IF ~pattern_ok THEN CelErr
    ELSE IF IsSome(captures)
    THEN LET groups == captures[1]
             g == IF Len(groups) > 1 THEN groups[2] ELSE groups[1]
         IN  CelOk(CelString(IF IsSome(g) THEN g[1] ELSE <<>>))
    ELSE CelOk(CelString(<<>>))

\* the expression of a rule: a constant, an expression whose evaluation
\* fails (e.g. a key that is not in node_labels), or a call of extract
ExprLit(value) == [op |-> "lit", value |-> value]
ExprFail == [op |-> "fail"]
ExprExtract(pattern_ok, captures) ==
    [op |-> "extract", pattern_ok |-> pattern_ok, captures |-> captures]

\* Program::execute
Execute(expr) ==
    CASE expr.op = "lit" -> CelOk(expr.value)
      [] expr.op = "extract" -> extract_regex(expr.pattern_ok, expr.captures)
      [] OTHER -> CelErr

\* a rule: its text, whether Program::compile accepts it, its expression
Rule(text, compiles, expr) == [text |-> text, compiles |-> compiles, expr |-> expr]

Rules ==
    { Rule("node_name.", FALSE, ExprFail),
      Rule("'rack-4'", TRUE, ExprLit(CelString(<<"r","a","c","k","-","4">>))),
      Rule("''", TRUE, ExprLit(CelString(<<>>))),
      Rule("43", TRUE, ExprLit(CelInt(43))),
      Rule("-1", TRUE, ExprLit(CelInt(-1))),
      Rule("7u", TRUE, ExprLit(CelUInt(7))),
      Rule("null", TRUE, ExprLit(CelNull)),
      Rule("node_name == 'node-a'", TRUE, ExprLit(CelBool(TRUE))),
      Rule("node_labels['missing']", TRUE, ExprFail),
      Rule("extract(node_name, 'r(')", TRUE, ExprExtract(FALSE, NoneOpt)),
      Rule("extract(node_name, 'r(\\d+)')", TRUE, ExprExtract(TRUE, NoneOpt)),
      Rule("extract(node_name, '-(\\w)')", TRUE,
           ExprExtract(TRUE, Some(<<Some(<<"-","a">>), Some(<<"a">>)>>))),
      Rule("extract(node_name, 'node')", TRUE,
           ExprExtract(TRUE, Some(<<Some(<<"n","o","d","e">>)>>))) }

\* i64::to_string
IntToString(i) == IF i < 0 THEN <<"-">> \o U32ToString(-i) ELSE U32ToString(i)

\* format!("{:?}", value) of the remaining variants
CelDebug(value) ==
    <<"B","o","o","l","(">> \o (IF value.v THEN V_true ELSE V_false) \o <<")">>

\* Result<Option<String>>: err is the error message, if any
RuleOk(value) == [err |-> NoneOpt, value |-> value]
RuleErr(msg) == [err |-> Some(msg), value |-> NoneOpt]

\* the conversion of the result of the rule into a block
ConvertResult(value) ==
    CASE value.kind = "String" ->
             IF value.v = <<>> THEN RuleOk(NoneOpt) ELSE RuleOk(Some(value.v))
      [] value.kind = "Int" -> RuleOk(Some(IntToString(value.v)))
      [] value.kind = "UInt" -> RuleOk(Some(U32ToString(value.v)))
      [] value.kind = "Null" -> RuleOk(NoneOpt)
      [] OTHER -> RuleOk(Some(CelDebug(value)))

evaluate_topology_rule(node, labels, rule) ==
    IF ~IsSome(node.name) THEN RuleErr("Node has no name")
    ELSE IF ~rule.compiles THEN RuleErr("Failed to compile CEL topology rule")
    ELSE IF ~Execute(rule.expr).ok THEN RuleErr("Failed to execute CEL topology rule")
    ELSE ConvertResult(Execute(rule.expr).value)

create_custom_topology_detection(rule) ==
    TopologyDetection("Custom", <<"Custom CEL rule: ", rule.text>>, "High")

----------------------------------------------------------------------------
(* Cluster scan: node analysis (hermes/src/analyzer.rs) *)

HardwareStrategy ==
    TopologyDetection("Hardware", <<"GKE RDMA fabric domain analysis">>, "High")
ZoneStrategy ==
    TopologyDetection("Zone", <<"GKE zone+nodepool topology">>, "Medium")

\* the nodes that make has_fabric_domains true
HasFabricDomain(node) ==
    /\ IsSome(node.annotations)
    /\ detect_platform_from_labels(MapOrEmpty(node.labels)) = "GKE"
    /\ IsSome(gke_fabric_domain("GKE", node.annotations[1]))

determine_cluster_topology_strategy(nodes, platform_type) ==
    IF platform_type = "GKE"
    THEN IF \E i \in 1..Len(nodes) : HasFabricDomain(nodes[i])
         THEN Some(HardwareStrategy)
         ELSE Some(ZoneStrategy)
    ELSE NoneOpt

StrategyIs(cluster_strategy, topology_type) ==
    IsSome(cluster_strategy) /\ cluster_strategy[1].topology_type = topology_type

detect_topology_block_with_strategy(node, platform_type, labels, annotations, cluster_strategy, overflowChecks) ==
    IF StrategyIs(cluster_strategy, "Hardware") /\ platform_type = "GKE"
    THEN TopoResult(gke_fabric_domain(detect_platform_from_labels(labels),
                                      annotations),
                    cluster_strategy)
    ELSE IF /\ StrategyIs(cluster_strategy, "Zone") /\ platform_type = "GKE"
            /\ IsSome(GkeZone(labels)) /\ IsSome(Get(labels, L_gke_nodepool))
    THEN TopoResult(Some(ZoneNodepool(GkeZone(labels), Get(labels, L_gke_nodepool))),
                    cluster_strategy)
    ELSE detect_topology_block(detect_platform_from_labels(labels),
             node, labels, annotations, overflowChecks)

\* a variant that tags the node Custom whatever the outcome of the rule
RuleTopology_AlwaysCustom(r, rule) ==
    [panic |-> FALSE, block |-> r.value,
     detection |-> Some(create_custom_topology_detection(rule)),
     error |-> r.err]

\* (topology_block, topology_detection, topology_rule_error), or a panic:
\* from the outcome of the rule, or from a detector
RuleTopology(r, rule) ==
    IF IsSome(r.err)
    THEN [panic |-> FALSE, block |-> NoneOpt, detection |-> NoneOpt, error |-> r.err]
    ELSE [panic |-> FALSE, block |-> r.value,
          detection |-> Some(create_custom_topology_detection(rule)),
          error |-> NoneOpt]

DetectedTopology(t) ==
    [panic |-> t.panic, block |-> t.block, detection |-> t.detection,
     error |-> NoneOpt]

TopologyOf(node, platform_type, labels, annotations, cluster_strategy, topology_rule, overflowChecks) ==
    IF IsSome(topology_rule)
    THEN RuleTopology(evaluate_topology_rule(node, labels, topology_rule[1]),
                      topology_rule[1])
    ELSE IF IsSome(cluster_strategy)
    THEN DetectedTopology(detect_topology_block_with_strategy(node, platform_type,
             labels, annotations, cluster_strategy, overflowChecks))
    ELSE DetectedTopology(detect_topology_block(platform_type, node, labels,
             annotations, overflowChecks))

\* Option<String>::unwrap_or_default()
NameOrDefault(opt) == IF IsSome(opt) THEN opt[1] ELSE <<>>

\* the NodeInfo built from the parts, or the panic of the topology detector
NodeInfo(node, labels, platform_type, rdma, topo) ==
    [panic |-> topo.panic,
     info |-> [name |-> NameOrDefault(node.name),
               rdma_capability |-> IF rdma.capable THEN "Capable" ELSE "NotCapable",
               rdma_type |-> rdma.rdma_type,
               rdma_resource |-> rdma.rdma_resource,
               platform_type |-> platform_type,
               topology_block |-> topo.block,
               topology_detection |-> topo.detection,
               leafgroup |-> IF platform_type = "CoreWeave"
                             THEN Get(labels, L_cw_leafgroup) ELSE NoneOpt,
               topology_rule_error |-> topo.error]]

AnalyzeAs(node, labels, annotations, platform_type, cluster_strategy, topology_rule, overflowChecks) ==
    NodeInfo(node, labels, platform_type,
             detect_rdma_capability(platform_type, node),
             TopologyOf(node, platform_type, labels, annotations, cluster_strategy,
                        topology_rule, overflowChecks))

\* analyze_node_with_image: [panic, info], info the NodeInfo when it returns
analyze_node(node, cluster_strategy, topology_rule, overflowChecks) ==
    AnalyzeAs(node, MapOrEmpty(node.labels), MapOrEmpty(node.annotations),
              detect_platform_from_labels(MapOrEmpty(node.labels)),
              cluster_strategy, topology_rule, overflowChecks)

----------------------------------------------------------------------------
(* Cluster scan: the scan command (hermes/src/main.rs) *)

\* the orchestrator is not part of a scan
OrchIdle ==
    /\ config = [dry_run |-> FALSE, no_cleanup |-> FALSE,
                 cleanup_on_signal |-> FALSE, sriov_network |-> NoneOpt]
    /\ mpc = "off"
    /\ docIdx = 1
    /\ status = NoExecution
    /\ success = FALSE
    /\ shared = NoneOpt
    /\ nodePair = NoneOpt
    /\ detected = NoneOpt
    /\ sriovResp = NoResponse
    /\ result = NoResult
    /\ lastPoll = <<>>
    /\ elapsed = 0
    /\ mainDel = 0
    /\ spc = "none"
    /\ sigDel = 0
    /\ sigStatus = "NoSignal"
    /\ cluster = {}
    /\ createCalls = 0
    /\ exited = FALSE
    /\ exitCode = 0
    /\ panicked = FALSE

SelIdle ==
    /\ selPc = "off" /\ selParams = NoneOpt /\ selReport = <<>>
    /\ selResult = NoResult

\* the platform of the scan is the platform of the first node listed
FirstNodePlatform(nodes) ==
    IF Len(nodes) > 0
    THEN detect_platform_from_labels(MapOrEmpty(nodes[1].labels))
    ELSE "GenericKubernetes"

ScanDetermineStrategy ==
    /\ scanPc = "start"
    /\ clusterPlatform' = FirstNodePlatform(nodeList)
    /\ clusterStrategy' =
           determine_cluster_topology_strategy(nodeList, FirstNodePlatform(nodeList))
    /\ scanPc' = "nodes"
    /\ UNCHANGED <<nodeList, topologyRule, reportNodes, analyzeArgs, selVars,
                   orchVars, muxVars>>

\* one iteration of the loop over node_list.items; a panic ends the process
ScanAnalyzeNode ==
    /\ scanPc = "nodes"
    /\ Len(reportNodes) < Len(nodeList)
    /\ \E overflowChecks \in BOOLEAN :
         LET r == analyze_node(nodeList[Len(reportNodes) + 1], clusterStrategy,
                               topologyRule, overflowChecks)
         IN  IF r.panic
             THEN /\ scanPc' = "panicked"
                  /\ UNCHANGED reportNodes
             ELSE /\ reportNodes' = Append(reportNodes, r.info)
                  /\ UNCHANGED scanPc
    /\ UNCHANGED <<nodeList, topologyRule, clusterPlatform, clusterStrategy,
                   analyzeArgs, selVars, orchVars, muxVars>>

ScanFinish ==
    /\ scanPc = "nodes"
    /\ Len(reportNodes) = Len(nodeList)
    /\ scanPc' = "done"
    /\ UNCHANGED <<nodeList, topologyRule, clusterPlatform, clusterStrategy,
                   reportNodes, analyzeArgs, selVars, orchVars, muxVars>>

ScanNext ==
    \/ ScanDetermineStrategy
    \/ ScanAnalyzeNode
    \/ ScanFinish

ScanIdleRest ==
    /\ scanPc = "start"
    /\ clusterPlatform = "GenericKubernetes"
    /\ clusterStrategy = NoneOpt
    /\ reportNodes = <<>>
    /\ analyzeArgs = ScanArgs
    /\ SelIdle /\ OrchIdle /\ MuxIdle

\* one node of any shape, with or without a topology rule
NodeInit ==
    /\ \/ /\ nodeList \in {<<n>> : n \in Nodes}
          /\ topologyRule = NoneOpt
       \/ /\ nodeList \in {<<n>> : n \in RuleNodes}
          /\ topologyRule \in {Some(r) : r \in Rules}
    /\ ScanIdleRest

NodeSpec == NodeInit /\ [][ScanNext]_vars

----------------------------------------------------------------------------
(* Cluster scan: a scan of several nodes *)

\* the longest node list of a scan
MaxScanNodes == 2

\* nodes of a GKE cluster and nodes that carry other labels
ScanNodes ==
    [name : {Some(<<"n","o","d","e","-","a">>)},
     labels : { NoneOpt,
                Some(L_gke_nodepool :> PoolA @@ L_zone :> ZoneA),
                Some(L_gke_nodepool :> PoolA @@ L_gke_zone :> ZoneA
                         @@ L_gce_block :> <<"b","l","o","c","k","i","d","-","0","0","0","1">>),
                Some(L_zone :> ZoneA),
                Some(L_gke_nodepool :> PoolA @@ L_os_id :> <<"r","h","c","o","s">> @@ L_zone :> ZoneA) },
     annotations : {NoneOpt, Some(A_gke_networks :> JsonBad),
                    Some(A_gke_networks :> FabricNetworks)},
     capacity : {NoneOpt},
     addresses : {NoneOpt}]

RECURSIVE ListsUpTo(_, _)
ListsUpTo(S, n) ==
    IF n = 0 THEN {<<>>}
    ELSE ListsUpTo(S, n - 1)
             \cup {Append(l, x) : l \in ListsUpTo(S, n - 1), x \in S}

ScanInit ==
    /\ nodeList \in ListsUpTo(ScanNodes, MaxScanNodes)
    /\ topologyRule \in {NoneOpt, Some(Rule("'rack-4'", TRUE, ExprLit(CelString(<<"r","a","c","k","-","4">>))))}
    /\ ScanIdleRest

ScanSpec == ScanInit /\ [][ScanNext]_vars

----------------------------------------------------------------------------
(* Node selection (hermes/src/node_selector.rs) *)

\* the outcomes of resolve and of select_nodes_from_report
Resolved(num_nodes, gpus_per_node) ==
    [kind |-> "Ok", num_nodes |-> num_nodes, gpus_per_node |-> gpus_per_node]
SelErr(m) == [kind |-> "Err", msg |-> m]
SelPanic == [kind |-> "panic"]

\* NodeSelectionParams::resolve; u32 % 0 panics
resolve(p) ==
    CASE IsSome(p.num_nodes) /\ ~IsSome(p.total_gpus) /\ IsSome(p.gpus_per_node) ->
             Resolved(p.num_nodes[1], p.gpus_per_node)
      [] ~IsSome(p.num_nodes) /\ IsSome(p.total_gpus) /\ IsSome(p.gpus_per_node) ->
             IF p.gpus_per_node[1] = 0 THEN SelPanic
             ELSE IF p.total_gpus[1] % p.gpus_per_node[1] # 0
             THEN SelErr("total-gpus not evenly divisible by gpus-per-node")
             ELSE Resolved(p.total_gpus[1] \div p.gpus_per_node[1], p.gpus_per_node)
      [] IsSome(p.num_nodes) /\ ~IsSome(p.total_gpus) /\ ~IsSome(p.gpus_per_node) ->
             Resolved(p.num_nodes[1], NoneOpt)
      [] ~IsSome(p.num_nodes) /\ IsSome(p.total_gpus) /\ ~IsSome(p.gpus_per_node) ->
             Resolved(0, p.total_gpus)
      [] ~IsSome(p.num_nodes) /\ ~IsSome(p.total_gpus) /\ ~IsSome(p.gpus_per_node) ->
             Resolved(2, NoneOpt)
      [] ~IsSome(p.num_nodes) /\ ~IsSome(p.total_gpus) /\ IsSome(p.gpus_per_node) ->
             SelErr("--gpus-per-node requires either --num-nodes or --total-gpus")
      [] OTHER -> SelErr("Cannot specify both --num-nodes and --total-gpus")

Range(seq) == {seq[i] : i \in DOMAIN seq}

\* Vec::retain: the elements of seq that are in K, in order
RECURSIVE Retain(_, _)
Retain(seq, K) ==
    IF seq = <<>> THEN <<>>
    ELSE (IF Head(seq) \in K THEN <<Head(seq)>> ELSE <<>>) \o Retain(Tail(seq), K)

\* iter().take(n)
Take(seq, n) == SubSeq(seq, 1, IF n < Len(seq) THEN n ELSE Len(seq))

S_ib == <<"i","b">>
S_IB == <<"I","B">>

IsIb(node) ==
    IsSome(node.rdma_resource)
        /\ (Contains(node.rdma_resource[1], S_ib) \/ Contains(node.rdma_resource[1], S_IB))

\* node.gpu_count.unwrap_or(0)
GpuOrZero(node) == IF IsSome(node.gpu_count) THEN node.gpu_count[1] ELSE 0

CapableNodes(nodes) ==
    Retain(nodes, {n \in Range(nodes) : n.rdma_capability = "Capable"})

FilterIb(candidates, params) ==
    IF params.ib_only
    THEN Retain(candidates, {n \in Range(candidates) : IsIb(n)})
    ELSE candidates

FilterMinGpus(candidates, params) ==
    IF IsSome(params.min_gpus_per_node)
    THEN Retain(candidates,
             {n \in Range(candidates) : GpuOrZero(n) >= params.min_gpus_per_node[1]})
    ELSE candidates

WithGpus(candidates, g) ==
    Retain(candidates, {n \in Range(candidates) : GpuOrZero(n) = g})

\* the keys of by_gpu_count
GpuCounts(candidates) ==
    {n.gpu_count[1] : n \in {m \in Range(candidates) : IsSome(m.gpu_count)}}

\* the number of candidates with gpu_count = Some(c)
Available(candidates, c) ==
    Cardinality({i \in DOMAIN candidates : candidates[i].gpu_count = Some(c)})

\* counts accepted without the test of divisibility
FittingCounts_AnyCount(candidates, gpus) ==
    {c \in GpuCounts(candidates) :
        c # 0 /\ Available(candidates, c) >= gpus \div c}

\* the GPU counts the loop over gpu_counts would accept
FittingCounts(candidates, gpus) ==
    {c \in GpuCounts(candidates) :
        c # 0 /\ gpus % c = 0 /\ Available(candidates, c) >= gpus \div c}

MaxOf(S) == CHOOSE x \in S : \A y \in S : y <= x

\* get_topology_selector(..).get_topology_key(node)
get_topology_key(platform_type, node) ==
    IF platform_type = "CoreWeave" THEN node.leafgroup ELSE node.topology_block

\* the key of the node in topology_groups
GroupKey(platform_type, node) ==
    IF IsSome(get_topology_key(platform_type, node))
    THEN get_topology_key(platform_type, node)[1]
    ELSE "unknown"

GroupKeys(platform_type, candidates) ==
    {GroupKey(platform_type, n) : n \in Range(candidates)}

GroupOf(platform_type, candidates, k) ==
    Retain(candidates, {n \in Range(candidates) : GroupKey(platform_type, n) = k})

\* the keys of topology_groups in the iteration order of the HashMap; order is
\* an order of all the keys the report can produce
IterationOrder(platform_type, candidates, order) ==
    Retain(order, GroupKeys(platform_type, candidates))

\* max_by_key over the groups that are large enough: the last of the largest
LargestSize(platform_type, candidates, keys) ==
    MaxOf({Len(GroupOf(platform_type, candidates, k)) : k \in keys})

BestGroup(platform_type, candidates, iter, num_nodes) ==
    Retain(iter,
        {k \in Range(iter) :
            /\ Len(GroupOf(platform_type, candidates, k)) >= num_nodes
            /\ Len(GroupOf(platform_type, candidates, k)) =
                 LargestSize(platform_type, candidates,
                     {j \in Range(iter) :
                         Len(GroupOf(platform_type, candidates, j)) >= num_nodes})})

Last(seq) == seq[Len(seq)]

\* sort_by_key(Reverse(len)), a stable sort: the groups of size s, then the
\* smaller ones
RECURSIVE BySizeDesc(_, _, _, _)
BySizeDesc(platform_type, candidates, iter, s) ==
    IF s = 0 THEN <<>>
    ELSE Retain(iter, {k \in Range(iter) :
                          Len(GroupOf(platform_type, candidates, k)) = s})
             \o BySizeDesc(platform_type, candidates, iter, s - 1)

RECURSIVE ConcatGroups(_, _, _)
ConcatGroups(platform_type, candidates, keys) ==
    IF keys = <<>> THEN <<>>
    ELSE GroupOf(platform_type, candidates, Head(keys))
             \o ConcatGroups(platform_type, candidates, Tail(keys))

Fallback(platform_type, candidates, iter, num_nodes) ==
    Take(ConcatGroups(platform_type, candidates,
             BySizeDesc(platform_type, candidates, iter, Len(candidates))),
         num_nodes)

SameBlockRefs(platform_type, candidates, iter, num_nodes, best) ==
    IF best # <<>>
    THEN Take(GroupOf(platform_type, candidates, Last(best)), num_nodes)
    ELSE Fallback(platform_type, candidates, iter, num_nodes)

SelectedRefs(platform_type, params, candidates, iter, num_nodes) ==
    IF params.prefer_same_block
    THEN SameBlockRefs(platform_type, candidates, iter, num_nodes,
             BestGroup(platform_type, candidates, iter, num_nodes))
    ELSE Take(candidates, num_nodes)

SelectedNode(platform_type, node, rank) ==
    [name |-> node.name,
     rdma_resource |-> IF IsSome(node.rdma_resource) THEN node.rdma_resource[1] ELSE <<>>,
     gpus |-> GpuOrZero(node),
     topology_block |-> get_topology_key(platform_type, node),
     rank |-> rank]

\* the keys of blocks
Blocks(selected) ==
    {IF IsSome(selected[i].topology_block) THEN selected[i].topology_block[1]
     ELSE "unknown" : i \in DOMAIN selected}

\* a flag that only looks at the selection being non-empty
AllSameBlock_NonEmpty(blocks) == blocks # {}

AllSameBlock(blocks) == Cardinality(blocks) = 1 /\ "unknown" \notin blocks

\* selected.iter().map(|n| n.gpus).sum()
RECURSIVE SumGpus(_)
SumGpus(selected) ==
    IF selected = <<>> THEN 0 ELSE Head(selected).gpus + SumGpus(Tail(selected))

SelectionSummary(selected, total_gpus) ==
    [total_nodes |-> Len(selected),
     total_gpus |-> total_gpus,
     gpus_per_node |-> IF \A i \in DOMAIN selected : selected[i].gpus = selected[1].gpus
                       THEN selected[1].gpus
                       ELSE total_gpus \div Len(selected),
     world_size |-> total_gpus]

NodeSelection(platform_type, selected) ==
    [kind |-> "Ok",
     nodes |-> selected,
     total_nodes |-> Len(selected),
     summary |-> SelectionSummary(selected, SumGpus(selected)),
     all_same_block |-> AllSameBlock(Blocks(selected)),
     blocks |-> Blocks(selected),
     platform |-> platform_type,
     rdma_type |-> selected[1].rdma_resource]

\* the end of select_nodes_from_report; selected[0] panics on an empty Vec
BuildSelection(platform_type, refs, num_nodes) ==
    IF Len(refs) < num_nodes THEN SelErr("Only found fewer nodes than needed")
    ELSE IF refs = <<>> THEN SelPanic
    ELSE NodeSelection(platform_type,
             [i \in DOMAIN refs |-> SelectedNode(platform_type, refs[i], i - 1)])

GroupStage(report, params, candidates, order, num_nodes) ==
    IF candidates = <<>> THEN SelErr("No nodes match the specified criteria")
    ELSE BuildSelection(report.platform_type,
             SelectedRefs(report.platform_type, params, candidates,
                 IterationOrder(report.platform_type, candidates, order), num_nodes),
             num_nodes)

\* optimize mode; gpus % gpu_count panics for a node with 0 GPUs when no
\* larger count fits
Optimize(report, params, candidates, order, gpus) ==
    IF FittingCounts(candidates, gpus) # {}
    THEN GroupStage(report, params,
             WithGpus(candidates, MaxOf(FittingCounts(candidates, gpus))), order,
             gpus \div MaxOf(FittingCounts(candidates, gpus)))
    ELSE IF 0 \in GpuCounts(candidates) THEN SelPanic
    ELSE SelErr("Cannot satisfy total GPUs with available nodes")

GpuStage(report, params, candidates, order, num_nodes, gpus_per_node) ==
    IF IsSome(gpus_per_node)
    THEN IF num_nodes = 0
         THEN Optimize(report, params, candidates, order, gpus_per_node[1])
         ELSE GroupStage(report, params, WithGpus(candidates, gpus_per_node[1]),
                  order, num_nodes)
    ELSE GroupStage(report, params, candidates, order, num_nodes)

\* select_nodes_from_report after resolve; order is the iteration order of
\* the HashMap of groups
select_nodes(report, params, order, num_nodes, gpus_per_node) ==
    IF CapableNodes(report.nodes) = <<>>
    THEN SelErr("No RDMA-capable nodes found in cluster")
    ELSE GpuStage(report, params,
             FilterMinGpus(FilterIb(CapableNodes(report.nodes), params), params),
             order, num_nodes, gpus_per_node)

\* the permutations of a set, as sequences
Orders(S) ==
    {f \in [1..Cardinality(S) -> S] : \A i, j \in 1..Cardinality(S) : f[i] = f[j] => i = j}

\* the longest node list of a report
MaxReportNodes == 3

\* NodeInfo values of a report (the name is given by the position)
ReportNodeChoices ==
    { [rdma_capability |-> "Capable", rdma_resource |-> Some(<<"r","d","m","a","/","i","b",":"," ","1">>),
       gpu_count |-> Some(8), topology_block |-> Some("b1"), leafgroup |-> Some("lg1")],
      [rdma_capability |-> "Capable", rdma_resource |-> Some(<<"r","d","m","a","/","i","b",":"," ","1">>),
       gpu_count |-> Some(8), topology_block |-> Some("b2"), leafgroup |-> NoneOpt],
      [rdma_capability |-> "Capable", rdma_resource |-> Some(<<"r","o","c","e">>),
       gpu_count |-> Some(4), topology_block |-> NoneOpt, leafgroup |-> Some("lg1")],
      [rdma_capability |-> "Capable", rdma_resource |-> NoneOpt,
       gpu_count |-> Some(0), topology_block |-> Some("unknown"), leafgroup |-> NoneOpt],
      [rdma_capability |-> "Capable", rdma_resource |-> Some(<<"r","o","c","e">>),
       gpu_count |-> NoneOpt, topology_block |-> Some("b1"), leafgroup |-> Some("lg2")],
      [rdma_capability |-> "NotCapable", rdma_resource |-> NoneOpt,
       gpu_count |-> Some(8), topology_block |-> Some("b1"), leafgroup |-> Some("lg1")] }

Named(list) ==
    [i \in DOMAIN list |->
        [name |-> i, rdma_capability |-> list[i].rdma_capability,
         rdma_resource |-> list[i].rdma_resource, gpu_count |-> list[i].gpu_count,
         topology_block |-> list[i].topology_block, leafgroup |-> list[i].leafgroup]]

Reports ==
    [platform_type : {"CoreWeave", "GKE"},
     nodes : {Named(l) : l \in ListsUpTo(ReportNodeChoices, MaxReportNodes)}]

Params(num_nodes, total_gpus, gpus_per_node, min_gpus, ib_only, prefer) ==
    [num_nodes |-> num_nodes, total_gpus |-> total_gpus,
     gpus_per_node |-> gpus_per_node, min_gpus_per_node |-> min_gpus,
     ib_only |-> ib_only, prefer_same_block |-> prefer]

\* every shape of (num_nodes, total_gpus, gpus_per_node)
ResolveParams ==
    {Params(n, t, g, NoneOpt, FALSE, TRUE) :
        n \in {NoneOpt, Some(0), Some(1), Some(2)},
        t \in {NoneOpt, Some(0), Some(8), Some(12)},
        g \in {NoneOpt, Some(0), Some(4), Some(8)}}

\* parameters that reach the selection
SelectParams ==
    {Params(n, NoneOpt, g, m, ib, prefer) :
        n \in {Some(1), Some(2), Some(3)}, g \in {NoneOpt, Some(8)},
        m \in {NoneOpt, Some(4)}, ib \in BOOLEAN, prefer \in BOOLEAN}
    \cup {Params(NoneOpt, Some(t), NoneOpt, NoneOpt, FALSE, prefer) :
              t \in {8, 12, 16}, prefer \in BOOLEAN}

\* all the group keys the nodes of a report can have
ReportKeys(report) == GroupKeys(report.platform_type, report.nodes)

SelResolve ==
    /\ selPc = "start"
    /\ selResult' = resolve(selParams[1])
    /\ selPc' = CASE resolve(selParams[1]).kind = "Ok" -> "resolved"
                  [] resolve(selParams[1]).kind = "Err" -> "resolve_err"
                  [] OTHER -> "resolve_panic"
    /\ UNCHANGED <<selParams, selReport, scanVars, orchVars, muxVars>>

SelSelect ==
    /\ selPc = "resolved"
    /\ \E order \in Orders(ReportKeys(selReport)) :
           selResult' = select_nodes(selReport, selParams[1], order,
                            selResult.num_nodes, selResult.gpus_per_node)
    /\ selPc' = CASE selResult'.kind = "Ok" -> "done"
                  [] selResult'.kind = "Err" -> "select_err"
                  [] OTHER -> "select_panic"
    /\ UNCHANGED <<selParams, selReport, scanVars, orchVars, muxVars>>

\* run_helm_plugin: after a selection was returned, the values file is
\* written and helm installs the release on the cluster
SelHelm ==
    /\ selPc = "done"
    /\ selPc' = "helm"
    /\ UNCHANGED <<selParams, selReport, selResult, scanVars, orchVars, muxVars>>

SelectNext == SelResolve \/ SelSelect \/ SelHelm

SelectInit ==
    /\ selPc = "start"
    /\ selResult = NoResult
    /\ \/ /\ selParams \in {Some(p) : p \in ResolveParams}
          /\ selReport \in {r \in Reports : Len(r.nodes) = 1}
       \/ /\ selParams \in {Some(p) : p \in SelectParams}
          /\ selReport \in Reports
    /\ scanPc = "off" /\ nodeList = <<>> /\ topologyRule = NoneOpt
    /\ clusterPlatform = "GenericKubernetes" /\ clusterStrategy = NoneOpt
    /\ reportNodes = <<>> /\ analyzeArgs = ScanArgs
    /\ OrchIdle /\ MuxIdle

SelectSpec == SelectInit /\ [][SelectNext]_vars

----------------------------------------------------------------------------
(* Pair selection of the topology selector (src/topology_selector.rs) *)

S_CoreWeave == <<"C","o","r","e","W","e","a","v","e">>
S_GKE == <<"G","K","E">>
S_OpenShift == <<"O","p","e","n","S","h","i","f","t">>
S_Optimal == <<"O","p","t","i","m","a","l"," ">>
S_GenericFallback == <<"G","e","n","e","r","i","c"," ","f","a","l","l","b","a","c","k",":"," ">>
S_fallback == <<" ","f","a","l","l","b","a","c","k",":"," ">>
S_same_topology == <<"s","a","m","e","-","t","o","p","o","l","o","g","y",":"," ">>
S_within_leafgroup == <<" ","R","D","M","A"," ","w","i","t","h","i","n"," ","l","e","a","f","g","r","o","u","p"," ","'">>
S_within == <<" ","R","D","M","A"," ","w","i","t","h","i","n"," ","'">>
S_quote == <<"'">>
S_may_differ == <<" ","R","D","M","A"," ","n","o","d","e","s"," ","(","t","o","p","o","l","o","g","y"," ","m","a","y"," ","d","i","f","f","e","r",")">>
S_cache_score == <<" ","(","c","a","c","h","e"," ","s","c","o","r","e",":"," ">>
S_paren == <<")">>
S_unknown == <<"u","n","k","n","o","w","n">>
S_RoCE == <<"R","o","C","E">>
S_InfiniBand == <<"I","n","f","i","n","i","B","a","n","d">>

\* the platform name in the reason text ("" for the generic selector)
PlatformWord(platform_type) ==
    CASE platform_type = "CoreWeave" -> S_CoreWeave \o <<" ">>
      [] platform_type = "GKE" -> S_GKE \o <<" ">>
      [] platform_type = "OpenShift" -> S_OpenShift \o <<" ">>
      [] OTHER -> <<>>

\* a reason text that is the same-topology text for every pair
format_selection_reason_AlwaysOptimal(platform_type, rdma_type, topology, is_fallback) ==
    S_Optimal \o PlatformWord(platform_type) \o S_same_topology \o rdma_type
        \o S_within \o topology \o S_quote

\* TopologySelector::format_selection_reason of the four selectors
format_selection_reason(platform_type, rdma_type, topology, is_fallback) ==
    IF is_fallback
    THEN (CASE platform_type = "CoreWeave" -> S_CoreWeave \o S_fallback
            [] platform_type = "GKE" -> S_GKE \o S_fallback
            [] platform_type = "OpenShift" -> S_OpenShift \o S_fallback
            [] OTHER -> S_GenericFallback)
         \o rdma_type \o S_may_differ
    ELSE S_Optimal \o PlatformWord(platform_type) \o S_same_topology \o rdma_type
         \o (IF platform_type = "CoreWeave" THEN S_within_leafgroup ELSE S_within)
         \o topology \o S_quote

\* TopologySelector::calculate_cache_score
calculate_cache_score(node1, node2) ==
    CASE node1.image_cache_status = "Cached" /\ node2.image_cache_status = "Cached" -> 3
      [] node1.image_cache_status = "Cached" \/ node2.image_cache_status = "Cached" -> 2
      [] OTHER -> 1

\* the keys of topology_groups: nodes without a key are left out
PairGroupKeys(platform_type, nodes) ==
    {get_topology_key(platform_type, n)[1] :
        n \in {m \in Range(nodes) : IsSome(get_topology_key(platform_type, m))}}

PairGroupOf(platform_type, nodes, k) ==
    Retain(nodes, {n \in Range(nodes) : get_topology_key(platform_type, n) = Some(k)})

\* the pairs (i, j), i < j, of one group in the order of the two loops
RECURSIVE PairsFrom(_, _, _)
PairsFrom(group, i, j) ==
    IF i >= Len(group) THEN <<>>
    ELSE IF j > Len(group) THEN PairsFrom(group, i + 1, i + 2)
    ELSE << <<group[i], group[j]>> >> \o PairsFrom(group, i, j + 1)

\* the pairs of all groups in the iteration order of the HashMap
RECURSIVE PairsInOrder(_, _, _)
PairsInOrder(platform_type, nodes, keys) ==
    IF keys = <<>> THEN <<>>
    ELSE PairsFrom(PairGroupOf(platform_type, nodes, Head(keys)), 1, 2)
             \o PairsInOrder(platform_type, nodes, Tail(keys))

\* best_pair: a later pair replaces the current one only with a higher score
RECURSIVE BestPair(_, _)
BestPair(pairs, best) ==
    IF pairs = <<>> THEN best
    ELSE BestPair(Tail(pairs),
             IF best = NoneOpt
                    \/ calculate_cache_score(Head(pairs)[1], Head(pairs)[2])
                         > calculate_cache_score(best[1][1], best[1][2])
             THEN Some(Head(pairs))
             ELSE best)

ScoreText(n) == CASE n = 1 -> <<"1">> [] n = 2 -> <<"2">> [] OTHER -> <<"3">>

PairFound(node1, node2, reason) ==
    [kind |-> "Some", node1 |-> node1, node2 |-> node2, reason |-> reason]

NoPair == [kind |-> "None"]

\* the reason of the best pair, with the cache score when cache data exists
BestPairReason(platform_type, rdma_type, node1, node2) ==
    format_selection_reason(platform_type, rdma_type,
        get_topology_key(platform_type, node1)[1], FALSE)
    \o (IF node1.image_cache_status # "Unknown" \/ node2.image_cache_status # "Unknown"
        THEN S_cache_score \o ScoreText(calculate_cache_score(node1, node2)) \o S_paren
        ELSE <<>>)

PairOutcome(platform_type, rdma_type, nodes, best) ==
    IF IsSome(best)
    THEN PairFound(best[1][1], best[1][2],
             BestPairReason(platform_type, rdma_type, best[1][1], best[1][2]))
    ELSE IF Len(nodes) >= 2
    THEN PairFound(nodes[1], nodes[2],
             format_selection_reason(platform_type, rdma_type, S_unknown, TRUE))
    ELSE NoPair

\* TopologySelector::select_same_topology_pair; order is the iteration order
\* of topology_groups
select_same_topology_pair(platform_type, rdma_type, nodes, order) ==
    PairOutcome(platform_type, rdma_type, nodes,
        BestPair(PairsInOrder(platform_type, nodes, order), NoneOpt))

\* the longest slice of nodes given to the selector
MaxPairNodes == 3

K_lg1 == <<"l","g","1">>
K_lg2 == <<"l","g","2">>
K_zone_a == <<"z","o","n","e","-","a">>
K_zone_b == <<"z","o","n","e","-","b">>

\* NodeInfo values of one RDMA type (the name is given by the position)
PairNodeChoices ==
    { [leafgroup |-> Some(K_lg1), topology_block |-> Some(K_zone_a), image_cache_status |-> "Unknown"],
      [leafgroup |-> Some(K_lg1), topology_block |-> Some(K_zone_b), image_cache_status |-> "Cached"],
      [leafgroup |-> Some(K_lg2), topology_block |-> Some(K_zone_a), image_cache_status |-> "Cached"],
      [leafgroup |-> Some(K_lg2), topology_block |-> Some(K_zone_b), image_cache_status |-> "NotCached"],
      [leafgroup |-> NoneOpt, topology_block |-> Some(K_zone_a), image_cache_status |-> "NotCached"],
      [leafgroup |-> Some(K_lg1), topology_block |-> NoneOpt, image_cache_status |-> "Unknown"],
      [leafgroup |-> NoneOpt, topology_block |-> NoneOpt, image_cache_status |-> "Unknown"] }

PairNamed(list) ==
    [i \in DOMAIN list |->
        [name |-> i, leafgroup |-> list[i].leafgroup,
         topology_block |-> list[i].topology_block,
         image_cache_status |-> list[i].image_cache_status]]

PairInputs ==
    [platform_type : PlatformTypes,
     nodes : {PairNamed(l) : l \in ListsUpTo(PairNodeChoices, MaxPairNodes)}]

\* find_best_node_pair_by_rdma_type calls the selector of the platform
PairSelect ==
    /\ selPc = "pair"
    /\ \E order \in Orders(PairGroupKeys(selReport.platform_type, selReport.nodes)) :
           selResult' = select_same_topology_pair(selReport.platform_type,
                            selParams[1], selReport.nodes, order)
    /\ selPc' = "pair_done"
    /\ UNCHANGED <<selParams, selReport, scanVars, orchVars, muxVars>>

\* the caller reads the pair
PairTaken ==
    /\ selPc = "pair_done"
    /\ selPc' = "pair_taken"
    /\ UNCHANGED <<selParams, selReport, selResult, scanVars, orchVars, muxVars>>

PairNext == PairSelect \/ PairTaken

PairInit ==
    /\ selPc = "pair"
    /\ selResult = NoResult
    /\ selParams \in {Some(S_RoCE), Some(S_InfiniBand)}
    /\ selReport \in PairInputs
    /\ scanPc = "off" /\ nodeList = <<>> /\ topologyRule = NoneOpt
    /\ clusterPlatform = "GenericKubernetes" /\ clusterStrategy = NoneOpt
    /\ reportNodes = <<>> /\ analyzeArgs = ScanArgs
    /\ OrchIdle /\ MuxIdle

PairSpec == PairInit /\ [][PairNext]_vars

----------------------------------------------------------------------------
(* Node analysis with image detection, called twice on one node
   (hermes/src/analyzer.rs) *)

P_mellanox == <<"n","e","t",".","c","o","r","e","w","e","a","v","e",".","c","l","o","u","d","/","m","e","l","l","a","n","o","x",".">>
S_part_number == <<".","p","a","r","t","_","n","u","m","b","e","r">>
S_firmware == <<".","f","i","r","m","w","a","r","e">>
L_mlx_eth0_part == <<"n","e","t",".","c","o","r","e","w","e","a","v","e",".","c","l","o","u","d","/","m","e","l","l","a","n","o","x",".","e","t","h","0",".","p","a","r","t","_","n","u","m","b","e","r">>
L_mlx_eth0_fw == <<"n","e","t",".","c","o","r","e","w","e","a","v","e",".","c","l","o","u","d","/","m","e","l","l","a","n","o","x",".","e","t","h","0",".","f","i","r","m","w","a","r","e">>
L_mlx_eth1_part == <<"n","e","t",".","c","o","r","e","w","e","a","v","e",".","c","l","o","u","d","/","m","e","l","l","a","n","o","x",".","e","t","h","1",".","p","a","r","t","_","n","u","m","b","e","r">>
V_part == <<"M","C","X","6","5","3","1","0","6","A">>
V_fw == <<"2","0",".","3","1">>
I_nixl == <<"g","h","c","r",".","i","o","/","n","i","x","l",":","1">>
I_nixl_digest == <<"g","h","c","r",".","i","o","/","n","i","x","l","@","s","h","a","2","5","6",":","a","b">>
I_other == <<"b","u","s","y","b","o","x",":","1">>

\* key.strip_prefix("net.coreweave.cloud/mellanox.") then split('.').next():
\* the HashSet of interface names
MellanoxInterfaces(labels) ==
    {Split(SubSeq(k, Len(P_mellanox) + 1, Len(k)), ".")[1] :
        k \in {l \in DOMAIN labels : StartsWith(l, P_mellanox)}}

MellanoxNic(labels, interface) ==
    [part_number |-> Get(labels, P_mellanox \o interface \o S_part_number),
     firmware |-> Get(labels, P_mellanox \o interface \o S_firmware),
     interface |-> interface]

\* find_mellanox_nics; order is the iteration order of the HashSet
find_mellanox_nics(labels, order) ==
    [i \in DOMAIN order |-> MellanoxNic(labels, order[i])]

\* images_match
images_match(image1, image2) ==
    \/ image1 = image2
    \/ StartsWith(image1, Split(image2, "@")[1])
    \/ StartsWith(image2, Split(image1, "@")[1])

\* detect_image_in_node
detect_image_in_node(node, image) ==
    /\ IsSome(node.images)
    /\ \E i \in DOMAIN node.images[1] :
          /\ IsSome(node.images[1][i].names)
          /\ \E j \in DOMAIN node.images[1][i].names[1] :
                images_match(node.images[1][i].names[1][j], image)

ImageCacheStatusOf(node, check_image) ==
    IF IsSome(check_image)
    THEN IF detect_image_in_node(node, check_image[1]) THEN "Cached" ELSE "NotCached"
    ELSE "Unknown"

\* the fields of NodeInfo that depend on detail_level and check_image
ImageAndNicFields(node, labels, args, order, now) ==
    [mellanox_nics |-> IF args.detail_level = "Detailed"
                       THEN find_mellanox_nics(labels, order) ELSE <<>>,
     image_cache_status |-> ImageCacheStatusOf(node, args.check_image),
     image_cache_checked_at |-> IF IsSome(args.check_image) THEN Some(now) ELSE NoneOpt]

WithFields(r, fields) ==
    [panic |-> r.panic, info |-> r.info @@ fields]

\* analyze_node_with_image; order is the iteration order of the HashSet of
\* interfaces, now the value of Utc::now()
analyze_node_with_image(node, args, cluster_strategy, topology_rule, overflowChecks, order, now) ==
    WithFields(analyze_node(node, cluster_strategy, topology_rule, overflowChecks),
        ImageAndNicFields(node, MapOrEmpty(node.labels), args, order, now))

\* the values Utc::now() takes
MaxClock == 2

NicLabelChoices ==
    { NoneOpt,
      Some(L_mlx_eth0_part :> V_part @@ L_mlx_eth0_fw :> V_fw),
      Some(L_mlx_eth0_part :> V_part @@ L_mlx_eth1_part :> V_part),
      Some(L_cw_leafgroup :> <<"l","g","1">> @@ L_mlx_eth0_part :> V_part
               @@ L_mlx_eth0_fw :> V_fw @@ L_mlx_eth1_part :> V_part) }

ImageChoices ==
    { NoneOpt,
      Some(<< [names |-> NoneOpt] >>),
      Some(<< [names |-> Some(<<I_other>>)], [names |-> Some(<<I_nixl_digest, I_nixl>>)] >>) }

\* nodes that vary in what find_mellanox_nics and detect_image_in_node read
NicNodes ==
    [name : NodeNames, labels : NicLabelChoices, annotations : {NoneOpt},
     capacity : {NoneOpt}, addresses : AddressChoices, images : ImageChoices]

AnalyzeArgs ==
    [detail_level : {"Basic", "Detailed"}, check_image : {NoneOpt, Some(I_nixl)}]

\* one call of analyze_node_with_image on the node; a panic ends the process
AnalyzeCall ==
    /\ scanPc = "analyze"
    /\ Len(reportNodes) < 2
    /\ \E overflowChecks \in BOOLEAN, now \in 1..MaxClock,
          order \in Orders(MellanoxInterfaces(MapOrEmpty(nodeList[1].labels))) :
         LET r == analyze_node_with_image(nodeList[1], analyzeArgs, clusterStrategy,
                      topologyRule, overflowChecks, order, now)
         IN  IF r.panic
             THEN /\ scanPc' = "panicked"
                  /\ UNCHANGED reportNodes
             ELSE /\ reportNodes' = Append(reportNodes, r.info)
                  /\ UNCHANGED scanPc
    /\ UNCHANGED <<nodeList, topologyRule, clusterPlatform, clusterStrategy,
                   analyzeArgs, selVars, orchVars, muxVars>>

\* the two NodeInfo values are compared
AnalyzeCompare ==
    /\ scanPc = "analyze"
    /\ Len(reportNodes) = 2
    /\ scanPc' = "compared"
    /\ UNCHANGED <<nodeList, topologyRule, clusterPlatform, clusterStrategy,
                   reportNodes, analyzeArgs, selVars, orchVars, muxVars>>

TwiceNext == AnalyzeCall \/ AnalyzeCompare

TwiceInit ==
    /\ scanPc = "analyze"
    /\ nodeList \in {<<n>> : n \in NicNodes}
    /\ analyzeArgs \in AnalyzeArgs
    /\ topologyRule = NoneOpt
    /\ clusterPlatform = "GenericKubernetes"
    /\ clusterStrategy \in {NoneOpt, Some(ZoneStrategy)}
    /\ reportNodes = <<>>
    /\ SelIdle /\ OrchIdle /\ MuxIdle

TwiceSpec == TwiceInit /\ [][TwiceNext]_vars

----------------------------------------------------------------------------
(* Runs in which SIGINT is delivered during deployment: the executions of   *)
(* run() whose CTRL-C arrives while the record is Deploying and at least    *)
(* one document of the workload has been created.                           *)

\* SIGINT is delivered while deploy_workload() is between two create calls
SigIntWhileDeploying ==
    /\ status = "Deploying"
    /\ cluster # {}
    /\ SigInt

DeploySigNext ==
    \/ Start
    \/ LoadWorkload
    \/ AnalyzeCluster
    \/ SelectPair
    \/ DiscoverSriov
    \/ SelectSriov
    \/ CreateExecution
    \/ DryRunRender
    \/ DeployRender
    \/ DeployCreate
    \/ StoreAndRun
    \/ LoopHead
    \/ Evaluate
    \/ Tick
    \/ FinishMonitor
    \/ MainDelete
    \/ MainCleanupDone
    \/ SigIntWhileDeploying
    \/ SigLock
    \/ SigDelete
    \/ SigExit

DeploySigSpec == Init /\ [][DeploySigNext]_vars

----------------------------------------------------------------------------
(* Properties of the orchestrator *)

NumDeletes == Len(CleanupOrder)
Terminal == {"Completed", "Failed", "TimedOut"}

\* the signal handler task exists for this run
HandlerInstalled == config.cleanup_on_signal /\ ~config.dry_run

\* C1: the cleanup procedure is never executed by both the signal path and
\* the normal path of one test execution (at most one of them issues
\* delete calls).
C1_CleanupByAtMostOnePath == ~(mainDel > 0 /\ sigDel > 0)

\* C2: unless no_cleanup is configured, every return of run() after at
\* least one create call was sent has been preceded by the cleanup
\* procedure.
C2_CleanupOnEveryExit ==
    (mpc = "returned" /\ createCalls > 0 /\ ~config.no_cleanup)
        => mainDel = NumDeletes

\* C3: when SIGINT arrived while the test was Running, with
\* cleanup_on_signal enabled and not in dry-run, the process ends with
\* status 130, after the handler's cleanup has finished, without a panic.
C3_SigintWhileRunning ==
    (exited /\ sigStatus = "Running" /\ HandlerInstalled)
        => (exitCode = 130 /\ sigDel = NumDeletes /\ ~panicked)

\* the edges of the state machine as specified
SpecEdges ==
    { <<"Pending", "Deploying">>, <<"Deploying", "Running">>,
      <<"Running", "Completed">>, <<"Running", "Failed">>,
      <<"Running", "TimedOut">> }

\* C4 (as stated): TestExecution.status changes only along the specified
\* edges; a new record starts Pending or Deploying.
C4_OnlySpecEdges ==
    [][ status' # status =>
          IF status = NoExecution
          THEN status' \in {"Pending", "Deploying"}
          ELSE <<status, status'>> \in SpecEdges ]_vars

\* C4 (amended): status changes only along the specified edges or, in
\* dry-run mode, directly from Deploying to Completed; terminal states are
\* never left.
C4_EdgesWithDryRun ==
    [][ status' # status =>
          IF status = NoExecution
          THEN status' \in {"Pending", "Deploying"}
          ELSE \/ <<status, status'>> \in SpecEdges
               \/ /\ config.dry_run
                  /\ <<status, status'>> = <<"Deploying", "Completed">> ]_vars

C4_Witness ==
    /\ config.dry_run /\ status = "Completed" /\ mpc = "returned"

\* every Job of the listing reports succeeded >= 1
EverySucceeded(listing) ==
    \A j \in DOMAIN listing :
        IsSome(listing[j].succeeded) /\ listing[j].succeeded[1] >= 1

\* some Job of the listing reports failed >= 1
SomeFailed(listing) ==
    \E j \in DOMAIN listing :
        IsSome(listing[j].failed) /\ listing[j].failed[1] >= 1

C6_FailedJobMeansFailed ==
    [][ (mpc = "evaluate" /\ mpc' # mpc /\ SomeFailed(lastPoll))
          => status' = "Failed" ]_vars

\* C6 (amended): ... unless every Job of that listing also reports
\* succeeded >= 1 (the completion test is made first).
C6_FailedUnlessAllSucceeded ==
    [][ (mpc = "evaluate" /\ mpc' # mpc /\ SomeFailed(lastPoll)
           /\ ~EverySucceeded(lastPoll))
          => status' = "Failed" ]_vars

C6_Witness == status = "Failed" /\ mpc = "flush"

\* C7: once the monitor's clock has reached expected_duration, the loop head
\* starts no further poll: a test still Running becomes TimedOut, and the
\* orchestrator goes on to cleanup (unless cleanup is switched off).
C7_TimeoutThenCleanup ==
    /\ [][ (mpc = "loop" /\ mpc' # mpc /\ elapsed >= ExpectedDuration)
            => (status' = "TimedOut" /\ mpc' = "flush") ]_vars
    /\ [][ (mpc = "flush" /\ mpc' # mpc /\ status = "TimedOut"
             /\ ~config.no_cleanup)
            => mpc' = "cleanup" ]_vars
    /\ [][ (status = "Running" /\ status' = "TimedOut")
            => elapsed >= ExpectedDuration ]_vars

C7_Witness == status = "TimedOut" /\ mpc = "cleanup" /\ mainDel = NumDeletes

\* the message names the namespace / suggests --sriov-network
NamesNamespace(msg, ns) == \E i \in 1..Len(msg) : msg[i] = ns
SuggestsSriovFlag(msg) == \E i \in 1..Len(msg) : msg[i] = "--sriov-network"

\* the listing holds no network whose networkNamespace is the namespace
NoNetworkFor(resp, ns) ==
    \A i \in 1..Len(resp.items) :
        resp.items[i].network_namespace # Some(ns)

\* C8: RoCE pair, no --sriov-network, and a listing without any network for
\* the target namespace: run() returns an error naming the namespace and
\* suggesting --sriov-network, and no create call has been sent.
C8_NoSriovFailsBeforeDeploy ==
    [][ (mpc = "sriov_select" /\ mpc' # mpc
           /\ IsRoce(nodePair) /\ ~IsSome(config.sriov_network)
           /\ NoNetworkFor(sriovResp, TargetNamespace))
          => /\ mpc' = "returned"
             /\ result'.kind = "Err"
             /\ NamesNamespace(result'.msg, TargetNamespace)
             /\ SuggestsSriovFlag(result'.msg)
             /\ createCalls' = 0
             /\ cluster' = {} ]_vars

C8_Witness ==
    /\ mpc = "returned"
    /\ result = ErrResult(NoSriovMsg(TargetNamespace))
    /\ createCalls = 0

\* C9: a run that returns with the test Failed or TimedOut returns Ok
\* (exit status 0) after the cleanup; exit status 1 comes only from an
\* error of an orchestration step, never with a test in a terminal state.
C9_FailedTestIsNotAnError ==
    /\ (mpc = "returned" /\ status \in {"Failed", "TimedOut"})
         => /\ result.kind = "Ok"
            /\ exitCode = 0
            /\ (ShouldCleanup(config) => mainDel = NumDeletes)
    /\ (exited /\ exitCode = 1)
         => (mpc = "returned" /\ result.kind = "Err" /\ status \notin Terminal)

C9_Witness ==
    /\ mpc = "returned" /\ status = "Failed" /\ exitCode = 0
    /\ mainDel = NumDeletes

----------------------------------------------------------------------------
(* Properties of the multiplexer *)

IsPrefix(a, b) == Len(a) <= Len(b) /\ a = SubSeq(b, 1, Len(a))

\* the raw log lines printed for pod p, in print order
PrintedLog(p) ==
    LET mine == SelectSeq(printed, LAMBDA m : m[1] = p /\ Len(m[2]) = 1)
    IN  [i \in 1..Len(mine) |-> mine[i][2][1]]

\* C10: for each pod, the log lines the printer has written for it are, in
\* the same order, the first lines its follower read from the log stream.
C10_PerPodOrder == \A p \in Pods : IsPrefix(PrintedLog(p), readLog[p])

C10_Witness ==
    /\ Len(PrintedLog("pod-a")) = 2
    /\ PrintedLog("pod-a")[1] # PrintedLog("pod-a")[2]
    /\ Len(PrintedLog("pod-b")) >= 1
    /\ \E i, k \in 1..Len(printed) :
          /\ i < k
          /\ printed[i] = <<"pod-b", LogLine(readLog["pod-b"][1])>>
          /\ printed[k] = <<"pod-a", LogLine(readLog["pod-a"][1])>>

\* C11: when the process ends after the orchestrator has observed a terminal
\* state, every Sender of the channel has been dropped, the printer has
\* printed every message that was sent, and the printer has terminated.
C11_ClosedAndDrainedAfterTerminal ==
    (exited /\ status \in Terminal)
        => (senders = 0 /\ chan = <<>> /\ ppc = "done")

----------------------------------------------------------------------------
(* Properties of the cluster scan *)

NonEmptyOpt(opt) == IsSome(opt) /\ opt[1] # <<>>

\* C12: every NodeInfo of the report with rdma_capability = Capable has a
\* non-empty rdma_resource and a non-empty rdma_type.
C12_CapableHasResourceAndType ==
    \A i \in 1..Len(reportNodes) :
        reportNodes[i].rdma_capability = "Capable"
            => /\ NonEmptyOpt(reportNodes[i].rdma_resource)
               /\ IsSome(reportNodes[i].rdma_type)
               /\ reportNodes[i].rdma_type[1] # ""


\* C13: the platform detectors return a value for every node object; analysing
\* a node never ends in a panic.
C13_DetectorsNeverPanic == scanPc # "panicked"

\* the fabric domain the node at position i of the listing yields
FabricDomainOf(i) == extract_gke_fabric_domain(MapOrEmpty(nodeList[i].annotations))

\* C14: in a GKE scan without a custom rule in which a node yields a fabric
\* domain, the strategy is Hardware with confidence High and the topology
\* block of every node of the report is its own fabric domain or null.
C14_HardwareScanHasNoZoneBlocks ==
    (/\ scanPc \in {"nodes", "done"}
     /\ topologyRule = NoneOpt
     /\ clusterPlatform = "GKE"
     /\ \E i \in 1..Len(nodeList) : HasFabricDomain(nodeList[i]))
        => /\ clusterStrategy = Some(HardwareStrategy)
           /\ \A i \in 1..Len(reportNodes) :
                  \/ reportNodes[i].topology_block = NoneOpt
                  \/ reportNodes[i].topology_block = FabricDomainOf(i)


\* the labels of the node at position i of the listing
LabelsOf(i) == MapOrEmpty(nodeList[i].labels)

IsCustom(info) ==
    IsSome(info.topology_detection)
        /\ info.topology_detection[1].topology_type = "Custom"

\* a rule was supplied and its evaluation for node i returned Ok
EvaluatedWithoutError(i) ==
    /\ IsSome(topologyRule)
    /\ ~IsSome(evaluate_topology_rule(nodeList[i], LabelsOf(i), topologyRule[1]).err)

\* C15: the topology_detection of a NodeInfo has type Custom if and only if a
\* topology rule was supplied and its evaluation for that node completed
\* without error.
C15_CustomIffRuleEvaluated ==
    \A i \in 1..Len(reportNodes) :
        IsCustom(reportNodes[i]) <=> EvaluatedWithoutError(i)

C15_Witness ==
    /\ scanPc = "done" /\ Len(reportNodes) = 1
    /\ IsSome(topologyRule)
    /\ IsCustom(reportNodes[1])
    /\ IsSome(reportNodes[1].topology_block)

\* the result types the evaluator accepts: strings, integers, and null
AcceptedResultType(value) == value.kind \in {"String", "Int", "UInt", "Null"}

\* the evaluation of the rule raises: it does not compile, its execution
\* fails (a regex that does not compile, a missing key), or its result has a
\* type that is not accepted
Raises(rule) ==
    \/ ~rule.compiles
    \/ ~Execute(rule.expr).ok
    \/ ~AcceptedResultType(Execute(rule.expr).value)

\* C16: if evaluating the topology rule for a node raises (compilation error,
\* regex error, result of the wrong type), the topology_block of that node is
\* None and its topology_rule_error is set.
C16_RaisingRuleGivesErrorAndNoBlock ==
    \A i \in 1..Len(reportNodes) :
        (IsSome(topologyRule) /\ Raises(topologyRule[1]))
            => /\ reportNodes[i].topology_block = NoneOpt
               /\ IsSome(reportNodes[i].topology_rule_error)

\* C17: every CoreWeave node whose ib.coreweave.cloud/speed label is "0G" is
\* NotCapable, whatever RDMA resources its capacity advertises.
C17_ZeroSpeedIsNotCapable ==
    \A i \in 1..Len(reportNodes) :
        (/\ reportNodes[i].platform_type = "CoreWeave"
         /\ Get(LabelsOf(i), L_cw_speed) = Some(V_0G))
            => reportNodes[i].rdma_capability = "NotCapable"

C17_Witness ==
    /\ scanPc = "done" /\ Len(reportNodes) = 1
    /\ reportNodes[1].platform_type = "CoreWeave"
    /\ Get(LabelsOf(1), L_cw_speed) = Some(V_0G)
    /\ IsSome(nodeList[1].capacity)
    /\ ContainsKey(nodeList[1].capacity[1], R_roce_gdr)
    /\ reportNodes[1].rdma_capability = "NotCapable"

\* the platform the fixed order assigns to a label set
OrderedPlatform(labels) ==
    IF L_os_id \in DOMAIN labels THEN "OpenShift"
    ELSE IF \E k \in DOMAIN labels : StartsWith(k, P_coreweave) THEN "CoreWeave"
    ELSE IF \E k \in DOMAIN labels : StartsWith(k, P_gke) THEN "GKE"
    ELSE "GenericKubernetes"

\* C18: labels are tested in the order OpenShift, CoreWeave, GKE, Generic: a
\* label set that matches several rules gets the earliest matching platform,
\* and every label set gets exactly one platform.
C18_ClassifierOrder ==
    \A i \in 1..Len(reportNodes) :
        /\ reportNodes[i].platform_type \in PlatformTypes
        /\ reportNodes[i].platform_type = OrderedPlatform(LabelsOf(i))

C18_Witness ==
    /\ scanPc = "done" /\ Len(reportNodes) = 1
    /\ L_os_id \in DOMAIN LabelsOf(1)
    /\ \E k \in DOMAIN LabelsOf(1) : StartsWith(k, P_gke)
    /\ reportNodes[1].platform_type = "OpenShift"


----------------------------------------------------------------------------
(* Properties of the node selection *)

Resolving == selPc \in {"resolved", "resolve_err", "resolve_panic"}

\* the row of the table for the parameters: <<num_nodes, gpus_per_node>>, or
\* "error"
TableRow(n, t, g) ==
    CASE IsSome(n) /\ ~IsSome(t) /\ IsSome(g) -> <<n[1], g>>
      [] ~IsSome(n) /\ IsSome(t) /\ IsSome(g) ->
             IF g[1] # 0 /\ t[1] % g[1] = 0 THEN <<t[1] \div g[1], g>> ELSE "error"
      [] IsSome(n) /\ ~IsSome(t) /\ ~IsSome(g) -> <<n[1], NoneOpt>>
      [] ~IsSome(n) /\ IsSome(t) /\ ~IsSome(g) -> <<0, t>>
      [] ~IsSome(n) /\ ~IsSome(t) /\ ~IsSome(g) -> <<2, NoneOpt>>
      [] OTHER -> "error"

RowOf(p) == TableRow(p.num_nodes, p.total_gpus, p.gpus_per_node)

\* C19: resolve() returns for (num_nodes, total_gpus, gpus_per_node) the row
\* of the table: (N,-,G) -> (N,G); (-,T,G) -> (T/G,G) when T mod G = 0 and an
\* error otherwise; (N,-,-) -> (N,None); (-,T,-) -> (0,T); (-,-,-) -> (2,None);
\* (-,-,G) -> error; (N,T,any) -> error.
C19_ResolveFollowsTable ==
    Resolving =>
        IF RowOf(selParams[1]) = "error"
        THEN selPc = "resolve_err"
        ELSE /\ selPc = "resolved"
             /\ <<selResult.num_nodes, selResult.gpus_per_node>> = RowOf(selParams[1])

\* C20: in a NodeSelection produced with prefer_same_block = true whose
\* all_same_block flag is true, every selected node has the same
\* topology_block as every other selected node.
C20_AllSameBlockMeansOneBlock ==
    (selPc = "done" /\ selParams[1].prefer_same_block /\ selResult.all_same_block) =>
        \A i, j \in DOMAIN selResult.nodes :
            selResult.nodes[i].topology_block = selResult.nodes[j].topology_block

\* a selection of several nodes of one block, made with prefer_same_block
C20_Witness ==
    /\ selPc = "done"
    /\ selParams[1].prefer_same_block
    /\ selResult.all_same_block
    /\ Len(selResult.nodes) >= 2
    /\ Len(CapableNodes(selReport.nodes)) > Len(selResult.nodes)

Selected == selPc \in {"done", "select_err", "select_panic"}

\* the RDMA-capable nodes of the report that pass the active filters
FilteredCandidates ==
    FilterMinGpus(FilterIb(CapableNodes(selReport.nodes), selParams[1]), selParams[1])

\* only total_gpus given
OptimizeMode ==
    /\ ~IsSome(selParams[1].num_nodes)
    /\ IsSome(selParams[1].total_gpus)
    /\ ~IsSome(selParams[1].gpus_per_node)

\* the number of nodes asked for: the resolved number, or in optimize mode
\* the number of nodes of the chosen split
NodesWanted ==
    IF OptimizeMode
    THEN selParams[1].total_gpus[1]
             \div MaxOf(FittingCounts(FilteredCandidates, selParams[1].total_gpus[1]))
    ELSE resolve(selParams[1]).num_nodes

\* C21: select_nodes_from_report either returns exactly N nodes, all of them
\* RDMA-capable candidates that pass the ib_only and min_gpus_per_node
\* filters, or returns an error; it never returns fewer than N nodes.
C21_ExactlyNOrError ==
    Selected =>
        \/ selResult.kind = "Err"
        \/ /\ selResult.kind = "Ok"
           /\ Len(selResult.nodes) = NodesWanted
           /\ \A i \in DOMAIN selResult.nodes :
                 \E c \in Range(FilteredCandidates) : c.name = selResult.nodes[i].name

\* the gpu_count of the nodes of the returned selection
ChosenCount == selResult.nodes[1].gpus

RequestedTotal == selParams[1].total_gpus[1]

\* a gpu_count of the filtered candidates that divides the total and has
\* enough nodes
Fits(c) ==
    /\ c # 0
    /\ RequestedTotal % c = 0
    /\ Cardinality({i \in DOMAIN FilteredCandidates :
           FilteredCandidates[i].gpu_count = Some(c)}) >= RequestedTotal \div c

\* C22: in optimize mode (only total_gpus given) the selection uses the
\* largest gpu_count that evenly divides total_gpus and has enough nodes,
\* selects only nodes with that gpu_count, and summary.total_gpus and
\* world_size equal the requested total_gpus.
C22_OptimizeUsesLargestFittingCount ==
    (selPc = "done" /\ OptimizeMode) =>
        /\ Fits(ChosenCount)
        /\ \A i \in DOMAIN FilteredCandidates :
              (IsSome(FilteredCandidates[i].gpu_count)
                   /\ Fits(FilteredCandidates[i].gpu_count[1]))
                  => FilteredCandidates[i].gpu_count[1] <= ChosenCount
        /\ \A i \in DOMAIN selResult.nodes : selResult.nodes[i].gpus = ChosenCount
        /\ selResult.summary.total_gpus = RequestedTotal
        /\ selResult.summary.world_size = RequestedTotal

\* an optimize-mode selection where a smaller gpu_count fits as well
C22_Witness ==
    /\ selPc = "done"
    /\ OptimizeMode
    /\ \E i \in DOMAIN FilteredCandidates :
          /\ IsSome(FilteredCandidates[i].gpu_count)
          /\ Fits(FilteredCandidates[i].gpu_count[1])
          /\ FilteredCandidates[i].gpu_count[1] < ChosenCount

\* the gpu_counts of the filtered candidates
AvailableCounts ==
    {FilteredCandidates[i].gpu_count[1] :
        i \in {j \in DOMAIN FilteredCandidates : IsSome(FilteredCandidates[j].gpu_count)}}

\* c divides t (0 divides only 0)
Divides(c, t) == IF c = 0 THEN t = 0 ELSE t % c = 0

NotDivisibleByAnyCount ==
    /\ OptimizeMode
    /\ AvailableCounts # {}
    /\ \A c \in AvailableCounts : ~Divides(c, RequestedTotal)

\* C23: in optimize mode, when total_gpus is not divisible by any available
\* gpu_count, the selection returns an error that names the constraint, and
\* nothing is written to the cluster.
C23_IndivisibleTotalIsAnError ==
    (NotDivisibleByAnyCount /\ (Selected \/ selPc = "helm")) =>
        /\ selPc = "select_err"
        /\ selResult = SelErr("Cannot satisfy total GPUs with available nodes")

----------------------------------------------------------------------------
(* Properties of the pair selection *)

S_fallback_word == <<"f","a","l","l","b","a","c","k">>

PairReturned == selPc \in {"pair_done", "pair_taken"} /\ selResult.kind = "Some"

SameTopologyKey(node1, node2) ==
    /\ IsSome(get_topology_key(selReport.platform_type, node1))
    /\ get_topology_key(selReport.platform_type, node1)
           = get_topology_key(selReport.platform_type, node2)

\* C24: for every pair returned by the topology selector's pair selection,
\* both nodes have the same topology key or the reason contains "fallback".
C24_SameKeyOrFallback ==
    PairReturned =>
        \/ SameTopologyKey(selResult.node1, selResult.node2)
        \/ Contains(selResult.reason, S_fallback_word)

\* a pair of one group chosen although the first two nodes differ, and a
\* fallback pair of nodes with different keys
C24_Witness ==
    /\ PairReturned
    /\ SameTopologyKey(selResult.node1, selResult.node2)
    /\ ~Contains(selResult.reason, S_fallback_word)
    /\ ~SameTopologyKey(selReport.nodes[1], selReport.nodes[2])

----------------------------------------------------------------------------
(* Properties of the repeated analysis *)

\* C25: analyzing the same node twice with the same arguments yields
\* identical NodeInfo values.
C25_SameNodeSameInfo ==
    (scanPc \in {"analyze", "compared"} /\ Len(reportNodes) = 2) =>
        reportNodes[1] = reportNodes[2]

----------------------------------------------------------------------------
(* Properties of the event watcher *)

\* the messages the watcher has sent: those of the channel and those printed
IsEventLine(line) == Len(line) >= 4
Emitted == chan \o printed
EmittedEvents == {i \in DOMAIN Emitted : IsEventLine(Emitted[i][2])}

\* the type and the reason an emitted event line was formatted from
LineType(line) == IF line[1] = "EVENT: " THEN "Normal" ELSE line[2]
LineReason(line) == IF line[1] = "EVENT: " THEN line[2] ELSE line[4]

AllowedReasons ==
    {"Pulling", "Pulled", "Created", "Started", "Failed", "Scheduled",
     "FailedScheduling", "FailedMount"}

\* C26: the multiplexer emits a watched event only if its involvedObject.name
\* is one of the known pods of the test and its type is not Normal or its
\* reason is one of Pulling, Pulled, Created, Started, Failed, Scheduled,
\* FailedScheduling, FailedMount; every other event is dropped.
C26_OnlyAllowedEventsEmitted ==
    \A i \in EmittedEvents :
        /\ Emitted[i][1] \in PodNames(podList)
        /\ \/ LineType(Emitted[i][2]) # "Normal"
           \/ LineReason(Emitted[i][2]) \in AllowedReasons

\* a Normal event with an allowed reason was emitted and another event of
\* the stream was dropped
C26_Witness ==
    /\ \E i \in EmittedEvents :
          /\ LineType(Emitted[i][2]) = "Normal"
          /\ LineReason(Emitted[i][2]) = "Pulled"
    /\ evCount > Cardinality(EmittedEvents)

----------------------------------------------------------------------------
(* Further properties of the orchestrator *)

\* the Jobs the workload deploys
DeployedJobs == {Docs[i] : i \in {j \in DOMAIN Docs : Docs[j] \in JobNames}}

\* C27: a Running test is never marked Completed on a poll whose Job listing
\* is empty or holds fewer Jobs than were deployed.
C27_NoCompletionOnShortListing ==
    [][ (status = "Running" /\ status' = "Completed")
          => (DOMAIN lastPoll = DeployedJobs) ]_vars

\* C28: when SIGINT arrived after at least one resource was created and
\* before deployment finished, with cleanup_on_signal enabled and not in
\* dry-run, the resources that existed at that moment (the first document
\* of the workload is always one of them) are gone from the cluster when
\* the signal task ends the process.
C28_SigintWhileDeployingCleansUp ==
    (exited /\ spc = "done" /\ sigStatus = "Deploying" /\ HandlerInstalled)
        => Docs[1] \notin cluster

----------------------------------------------------------------------------
(* Degenerate numeric inputs of the selection *)

\* gpus_per_node = 0 given together with total_gpus
ZeroGpusPerNode ==
    /\ IsSome(selParams[1].total_gpus)
    /\ selParams[1].gpus_per_node = Some(0)

\* optimize mode over candidates of which one reports gpu_count = 0
ZeroGpuCandidate ==
    /\ OptimizeMode
    /\ \E i \in DOMAIN FilteredCandidates : FilteredCandidates[i].gpu_count = Some(0)

\* num_nodes = 0
ZeroNodes == selParams[1].num_nodes = Some(0)

\* C29: on gpus_per_node = 0 given with total_gpus, on a candidate with
\* gpu_count = 0 in optimize mode, and on num_nodes = 0, neither resolve()
\* nor select_nodes_from_report panics: each ends with an error or with a
\* selection.
C29_DegenerateInputsDoNotPanic ==
    (ZeroGpusPerNode \/ ZeroGpuCandidate \/ ZeroNodes)
        => selPc \notin {"resolve_panic", "select_panic"}

----------------------------------------------------------------------------
(* Dry-run mode *)

\* positions of the main task inside deploy_workload, the monitor and the
\* cleanup procedure
ClusterWritingSteps ==
    {"deploy_render", "deploy", "store", "loop", "evaluate", "flush", "cleanup"}

\* C30: in dry-run mode no create call and no delete call is sent to the
\* cluster: the main task never enters deployment or cleanup, no signal task
\* exists to clean up, and a run that returns Ok reports the execution as
\* Completed and successful.
C30_DryRunLeavesClusterAlone ==
    config.dry_run =>
        /\ createCalls = 0
        /\ cluster = {}
        /\ mainDel = 0
        /\ sigDel = 0
        /\ spc = "none"
        /\ mpc \notin ClusterWritingSteps
        /\ (mpc = "returned" /\ result = OkResult)
               => (status = "Completed" /\ success)

\* a dry run, configured to clean up on both paths, has rendered the
\* manifests and returned
C30_Witness ==
    /\ config.dry_run /\ ~config.no_cleanup /\ config.cleanup_on_signal
    /\ mpc = "returned" /\ result = OkResult
    /\ status = "Completed"

====
